---- MODULE Spec2Model ----
(***************************************************************************)
(* Model of the self-update engine of the updater plugin                   *)
(* (plugins/updater/src/updater.rs, commands.rs, lib.rs).                  *)
(*                                                                         *)
(*   SpecParse  the manifest deserializer (impl Deserialize for            *)
(*              RemoteRelease) applied to bounded JSON documents           *)
(*   SpecCheck  Updater::check, one step per endpoint request              *)
(*   Spec       the check / download / install / download_and_install      *)
(*              commands over the webview's resource table                 *)
(*                                                                         *)
(* Strings built with format! are sequences of tokens, so that two keys    *)
(* are equal exactly when their texts are.  Request construction (the      *)
(* template substitution, the proxy and the client build) is taken to      *)
(* succeed: endpoints are validated when the updater is built.             *)
(***************************************************************************)
EXTENDS Integers, Sequences, FiniteSets, TLC

(* ------------------------------ bounds -------------------------------- *)

\* version components range over 0..MaxVer
MaxVer == 1
\* the configured endpoint list has 1..MaxEndpoints entries
MaxEndpoints == 2
\* at most MaxLeadingV leading 'v' characters in a version string
MaxLeadingV == 2

(* ------------------------------ values -------------------------------- *)

NoneVal == [tag |-> "None"]

SomeVal(x) == [tag |-> "Some", v |-> x]

IsSome(o) == o.tag = "Some"

(* ------------------------- semver::Version ---------------------------- *)

\* a pre-release identifier: numeric or alphanumeric, val is its rank
NumId(n) == <<"num", n>>

AlnumId(n) == <<"alnum", n>>

Prereleases == { <<>>, <<NumId(0)>>, <<AlnumId(0)>>, <<NumId(0), NumId(1)>> }

Versions ==
  [major : 0..MaxVer, minor : 0..MaxVer, patch : 0..MaxVer, pre : Prereleases]

\* ordering of two pre-release identifiers: -1, 0 or 1
IdentCmp(a, b) ==
  IF a[1] = "num" /\ b[1] = "alnum" THEN -1
  ELSE IF a[1] = "alnum" /\ b[1] = "num" THEN 1
  ELSE IF a[2] < b[2] THEN -1
  ELSE IF a[2] > b[2] THEN 1
  ELSE 0

RECURSIVE IdentsCmp(_, _)
IdentsCmp(p, q) ==
  IF p = <<>> /\ q = <<>> THEN 0
  ELSE IF p = <<>> THEN -1
  ELSE IF q = <<>> THEN 1
  ELSE IF IdentCmp(Head(p), Head(q)) # 0 THEN IdentCmp(Head(p), Head(q))
  ELSE IdentsCmp(Tail(p), Tail(q))

\* Prerelease ordering: the empty pre-release (a release) is the greatest
PrereleaseCmp(p, q) ==
  IF p = <<>> /\ q = <<>> THEN 0
  ELSE IF p = <<>> THEN 1
  ELSE IF q = <<>> THEN -1
  ELSE IdentsCmp(p, q)

NatCmp(a, b) == IF a < b THEN -1 ELSE IF a > b THEN 1 ELSE 0

\* Version's ordering: field by field, major, minor, patch, pre
VersionCmp(a, b) ==
  IF NatCmp(a.major, b.major) # 0 THEN NatCmp(a.major, b.major)
  ELSE IF NatCmp(a.minor, b.minor) # 0 THEN NatCmp(a.minor, b.minor)
  ELSE IF NatCmp(a.patch, b.patch) # 0 THEN NatCmp(a.patch, b.patch)
  ELSE PrereleaseCmp(a.pre, b.pre)

(* --------------------------- JSON documents --------------------------- *)

\* a member of a JSON object: absent, null, present with a value of the
\* wrong JSON type ("bad"), or present with a value of the expected type
FAbsent == [t |-> "absent"]

FNull == [t |-> "null"]

FBad == [t |-> "bad"]

FOk(x) == [t |-> "ok", v |-> x]

\* Option<T> fields accept a missing member and null alike
IsMissing(f) == f.t \in {"absent", "null"}

\* the text of a version string: leading 'v' characters, then a core that
\* is either the text of the version core.version (wf) or a text that
\* Version::from_str rejects, such as "1.0" or "latest"
VersionText(nv, core) == [v |-> nv, core |-> core]

TextOf(version) == [wf |-> TRUE, version |-> version]

Garbage == [wf |-> FALSE, version |-> [major |-> 0, minor |-> 0, patch |-> 0, pre |-> <<>>]]

\* str.trim_start_matches('v'): every leading 'v' is removed
TrimStartMatchesV(s) == [s EXCEPT !.v = 0]

\* Version::from_str on the whole text
VersionFromStr(s) ==
  IF s.v = 0 /\ s.core.wf
    THEN [ok |-> TRUE, v |-> s.core.version]
    ELSE [ok |-> FALSE]

\* fn parse_version
parse_version(f) ==
  IF f.t # "ok" THEN [ok |-> FALSE]
  ELSE VersionFromStr(TrimStartMatchesV(f.v))

\* a URL text either parses as a Url or does not
BadUrl == <<"not a url">>

IsUrl(u) == u # BadUrl

\* ReleaseManifestPlatform: both members are required
PlatformOk(p) ==
  /\ p.url.t = "ok" /\ IsUrl(p.url.v)
  /\ p.signature.t = "ok"

ParseErr(what) == [ok |-> FALSE, err |-> what]

\* ReleaseData with a missing signature defaulted instead of rejected
ReleaseDataLenient(o) ==
  IF ~IsMissing(o.platforms)
    THEN [ok |-> TRUE,
          data |-> [shape |-> "Static",
                    platforms |->
                      [k \in DOMAIN o.platforms.v |->
                         [url |-> o.platforms.v[k].url.v,
                          signature |-> o.platforms.v[k].signature.v]]]]
  ELSE IF IsMissing(o.url)
    THEN ParseErr("the url field was not set on the updater response")
  ELSE [ok |-> TRUE,
        data |-> [shape |-> "Dynamic", url |-> o.url.v,
                  signature |-> IF IsMissing(o.signature) THEN <<>> ELSE o.signature.v]]

\* the data member of the RemoteRelease built by the deserializer: Static
\* when platforms is Some, else Dynamic, for which url and signature are
\* required
ReleaseData(o) ==
  IF ~IsMissing(o.platforms)
    THEN [ok |-> TRUE,
          data |-> [shape |-> "Static",
                    platforms |->
                      [k \in DOMAIN o.platforms.v |->
                         [url |-> o.platforms.v[k].url.v,
                          signature |-> o.platforms.v[k].signature.v]]]]
  ELSE IF IsMissing(o.url)
    THEN ParseErr("the url field was not set on the updater response")
  ELSE IF IsMissing(o.signature)
    THEN ParseErr("the signature field was not set on the updater response")
  ELSE [ok |-> TRUE,
        data |-> [shape |-> "Dynamic", url |-> o.url.v, signature |-> o.signature.v]]

\* InnerRemoteRelease::deserialize: the members are typed, version (alias
\* name) is required and goes through parse_version
InnerRemoteRelease(json) ==
  IF json.kind # "object" THEN ParseErr("invalid type")
  ELSE LET o == json.o
           vf == IF o.version.t # "absent" THEN o.version ELSE o.name
       IN
       IF o.version.t # "absent" /\ o.name.t # "absent"
         THEN ParseErr("duplicate field version")
       ELSE IF vf.t = "absent" THEN ParseErr("missing field version")
       ELSE IF ~parse_version(vf).ok THEN ParseErr("invalid version")
       ELSE IF o.notes.t = "bad" THEN ParseErr("invalid type")
       ELSE IF o.pub_date.t = "bad" THEN ParseErr("invalid type")
       ELSE IF o.platforms.t = "bad" THEN ParseErr("invalid type")
       ELSE IF o.platforms.t = "ok"
               /\ \E k \in DOMAIN o.platforms.v : ~PlatformOk(o.platforms.v[k])
         THEN ParseErr("invalid platform entry")
       ELSE IF o.url.t = "bad" \/ (o.url.t = "ok" /\ ~IsUrl(o.url.v))
         THEN ParseErr("invalid url")
       ELSE IF o.signature.t = "bad" THEN ParseErr("invalid type")
       ELSE [ok |-> TRUE, version |-> parse_version(vf).v]

\* impl Deserialize for RemoteRelease, on a JSON value
DeserializeRemoteRelease(json) ==
  IF ~InnerRemoteRelease(json).ok THEN InnerRemoteRelease(json)
  ELSE IF json.o.pub_date.t = "ok" /\ json.o.pub_date.v # "rfc3339"
    THEN ParseErr("invalid value for pub_date")
  ELSE IF ~ReleaseData(json.o).ok THEN ReleaseData(json.o)
  ELSE [ok |-> TRUE,
        release |->
          [version |-> InnerRemoteRelease(json).version,
           notes |-> IF IsMissing(json.o.notes) THEN NoneVal ELSE SomeVal(json.o.notes.v),
           pub_date |-> IF IsMissing(json.o.pub_date) THEN NoneVal
                        ELSE SomeVal(json.o.pub_date.v),
           data |-> ReleaseData(json.o).data]]

(* ------------------- RemoteRelease and target keys -------------------- *)

\* format!("{os}-{arch}-{installer}") and format!("{os}-{arch}")
FormatOsArchInstaller(os, arch, installer) == <<os, "-", arch, "-", installer>>

FormatOsArch(os, arch) == <<os, "-", arch>>

Ok(x) == [tag |-> "Ok", v |-> x]

Err(e) == [tag |-> "Err", err |-> e]

IsOk(r) == r.tag = "Ok"

\* RemoteRelease::download_url
download_url(release, target) ==
  IF release.data.shape = "Dynamic" THEN Ok(release.data.url)
  ELSE IF target \in DOMAIN release.data.platforms
    THEN Ok(release.data.platforms[target].url)
    ELSE Err([kind |-> "TargetNotFound", target |-> target])

\* RemoteRelease::signature
signature(release, target) ==
  IF release.data.shape = "Dynamic" THEN Ok(release.data.signature)
  ELSE IF target \in DOMAIN release.data.platforms
    THEN Ok(release.data.platforms[target].signature)
    ELSE Err([kind |-> "TargetNotFound", target |-> target])

\* TargetCandidates with the general key pushed first
TargetCandidatesSwapped(host) ==
  <<FormatOsArch(host.os.v, host.arch)>>
  \o (IF IsSome(host.installer)
        THEN <<FormatOsArchInstaller(host.os.v, host.arch, host.installer.v)>>
        ELSE <<>>)

\* the candidate keys of Updater::get_urls when no target is pinned
TargetCandidates(host) ==
  (IF IsSome(host.installer)
     THEN <<FormatOsArchInstaller(host.os.v, host.arch, host.installer.v)>>
     ELSE <<>>)
  \o <<FormatOsArch(host.os.v, host.arch)>>

\* the for loop of Updater::get_urls over the candidate keys, from index i
RECURSIVE SearchTargets(_, _, _)
SearchTargets(release, targets, i) ==
  IF i > Len(targets) THEN Err([kind |-> "TargetsNotFound", targets |-> targets])
  ELSE IF IsOk(download_url(release, targets[i])) /\ IsOk(signature(release, targets[i]))
    THEN Ok([url |-> download_url(release, targets[i]).v,
             signature |-> signature(release, targets[i]).v])
  ELSE SearchTargets(release, targets, i + 1)

\* Updater::get_urls
get_urls(upd, host, release) ==
  IF IsSome(upd.target)
    THEN IF ~IsOk(download_url(release, upd.target.v))
           THEN download_url(release, upd.target.v)
         ELSE IF ~IsOk(signature(release, upd.target.v))
           THEN signature(release, upd.target.v)
         ELSE Ok([url |-> download_url(release, upd.target.v).v,
                  signature |-> signature(release, upd.target.v).v])
  ELSE IF ~IsSome(host.os) THEN Err([kind |-> "UnsupportedOs"])
  ELSE SearchTargets(release, TargetCandidates(host), 1)

\* ShouldUpdate with >= in place of > in the default comparison
ShouldUpdateOrEqual(upd, release) ==
  IF IsSome(upd.version_comparator)
    THEN CASE upd.version_comparator.v = "neq" -> release.version # upd.current_version
           [] upd.version_comparator.v = "always" -> TRUE
           [] OTHER -> FALSE
    ELSE VersionCmp(release.version, upd.current_version) >= 0

\* the update decision of Updater::check
ShouldUpdate(upd, release) ==
  IF IsSome(upd.version_comparator)
    THEN CASE upd.version_comparator.v = "neq" -> release.version # upd.current_version
           [] upd.version_comparator.v = "always" -> TRUE
           [] OTHER -> FALSE
    ELSE VersionCmp(release.version, upd.current_version) = 1

(* --------------------------- Updater::check --------------------------- *)

\* StatusCode::is_success
is_success(status) == status >= 200 /\ status < 300

NO_CONTENT == 204

\* the locals of Updater::check when the for loop is entered; ret is the
\* value of an early return, brk is set by the break
CheckLocals ==
  [idx |-> 1,
   remote_release |-> NoneVal,
   raw_json |-> NoneVal,
   last_error |-> NoneVal,
   ret |-> NoneVal,
   brk |-> FALSE]

\* OnSendError without recording the error
OnSendErrorDropped(l) == [l EXCEPT !.idx = l.idx + 1]

\* Err(err) arm: the request failed; the error is recorded, next endpoint
OnSendError(l) ==
  [l EXCEPT !.last_error = SomeVal([kind |-> "Reqwest", ep |-> l.idx]),
            !.idx = l.idx + 1]

\* OnBadStatus with the status recorded as an error
OnBadStatusRecorded(l) ==
  [l EXCEPT !.last_error = SomeVal([kind |-> "Status", ep |-> l.idx]),
            !.idx = l.idx + 1]

\* a status that is not a success: logged only, next endpoint
OnBadStatus(l) == [l EXCEPT !.idx = l.idx + 1]

\* OnNoContent leaving the loop with break instead of returning
OnNoContentBreak(l) == [l EXCEPT !.brk = TRUE]

\* 204 No Content: return Ok(None)
OnNoContent(l) == [l EXCEPT !.ret = SomeVal(Ok(NoneVal))]

\* res.json().await? on a body that is not JSON: the error is returned
OnBodyNotJson(l) ==
  [l EXCEPT !.ret = SomeVal(Err([kind |-> "Reqwest", ep |-> l.idx]))]

\* OnRelease without the break
OnReleaseNoBreak(l, body, release) ==
  [l EXCEPT !.raw_json = SomeVal(body),
            !.last_error = NoneVal,
            !.remote_release = SomeVal(release),
            !.idx = l.idx + 1]

\* OnRelease that keeps the error recorded for an earlier endpoint
OnReleaseKeepsError(l, body, release) ==
  [l EXCEPT !.raw_json = SomeVal(body),
            !.remote_release = SomeVal(release),
            !.brk = TRUE]

\* Ok(release) arm: the errors so far are dropped and the loop is left
OnRelease(l, body, release) ==
  [l EXCEPT !.raw_json = SomeVal(body),
            !.last_error = NoneVal,
            !.remote_release = SomeVal(release),
            !.brk = TRUE]

\* Err(err) arm of from_value: the error is recorded, next endpoint
OnParseError(l, body) ==
  [l EXCEPT !.raw_json = SomeVal(body),
            !.last_error = SomeVal([kind |-> "Serde", ep |-> l.idx]),
            !.idx = l.idx + 1]

\* one iteration of the for loop of Updater::check: the request to endpoint
\* l.idx was answered by resp
LoopBody(l, resp) ==
  IF resp.kind = "neterr" THEN OnSendError(l)
  ELSE IF ~is_success(resp.status) THEN OnBadStatus(l)
  ELSE IF resp.status = NO_CONTENT THEN OnNoContent(l)
  ELSE IF resp.body.kind = "notjson" THEN OnBodyNotJson(l)
  ELSE IF DeserializeRemoteRelease(resp.body).ok
    THEN OnRelease(l, resp.body, DeserializeRemoteRelease(resp.body).release)
  ELSE OnParseError(l, resp.body)

\* the for loop is left: early return, break, or the list is exhausted
LoopLeft(upd, l) == IsSome(l.ret) \/ l.brk \/ l.idx > Len(upd.endpoints)

\* the session value built by Updater::check
NewUpdate(upd, host, release, urls, raw) ==
  [current_version |-> upd.current_version,
   version |-> release.version,
   target |-> IF IsSome(upd.target) THEN upd.target.v ELSE <<host.os.v>>,
   download_url |-> urls.url,
   signature |-> urls.signature,
   body |-> release.notes,
   date |-> release.pub_date,
   raw_json |-> raw,
   pubkey |-> upd.pubkey,
   timeout |-> NoneVal,
   proxy |-> upd.proxy,
   headers |-> upd.headers]

\* Updater::check after the for loop
AfterLoop(upd, host, l) ==
  IF IsSome(l.ret) THEN l.ret.v
  ELSE IF IsSome(l.last_error) THEN Err(l.last_error.v)
  ELSE IF ~IsSome(l.remote_release) THEN Err([kind |-> "ReleaseNotFound"])
  ELSE LET release == l.remote_release.v
           urls == get_urls(upd, host, release)
       IN IF ~IsOk(urls) THEN urls
          ELSE IF ShouldUpdate(upd, release)
            THEN Ok(SomeVal(NewUpdate(upd, host, release, urls.v, l.raw_json.v)))
          ELSE Ok(NoneVal)

\* the whole of Updater::check on the responses resps, one per endpoint, of
\* which only those up to the one that leaves the loop are used
RECURSIVE RunLoop(_, _, _)
RunLoop(upd, l, resps) ==
  IF LoopLeft(upd, l) THEN l
  ELSE RunLoop(upd, LoopBody(l, resps[l.idx]), resps)

check(upd, host, resps) ==
  IF ~IsSome(upd.target) /\ ~IsSome(host.os)
    THEN Err([kind |-> "UnsupportedOs"])
    ELSE AfterLoop(upd, host, RunLoop(upd, CheckLocals, resps))

\* UpdaterBuilder::build
build(builder) ==
  IF Len(builder.endpoints) = 0 THEN Err([kind |-> "EmptyEndpoints"])
  ELSE Ok(builder)

(* ------------------------ signature verification ---------------------- *)

\* the text of a minisign public key or signature either decodes (wf) to
\* the key pair it belongs to and, for a signature, the bytes it signs, or
\* it does not decode
KeyText(signer) == [wf |-> TRUE, signer |-> signer]

MalformedKey == [wf |-> FALSE, signer |-> "nobody"]

SignatureText(signer, payload) == [wf |-> TRUE, signer |-> signer, payload |-> payload]

MalformedSignature == [wf |-> FALSE, signer |-> "nobody", payload |-> <<>>]

\* verify_signature accepting every signature that decodes
verify_signature_any(data, release_signature, pub_key) ==
  IF ~pub_key.wf THEN Err([kind |-> "Base64OrMinisign"])
  ELSE IF ~release_signature.wf THEN Err([kind |-> "Base64OrMinisign"])
  ELSE Ok(TRUE)

\* fn verify_signature
verify_signature(data, release_signature, pub_key) ==
  IF ~pub_key.wf THEN Err([kind |-> "Base64OrMinisign"])
  ELSE IF ~release_signature.wf THEN Err([kind |-> "Base64OrMinisign"])
  ELSE IF release_signature.signer = pub_key.signer /\ release_signature.payload = data
    THEN Ok(TRUE)
  ELSE Err([kind |-> "Minisign"])

\* what Update::install_inner can end with: on Windows the process exits
\* when the installer was launched, elsewhere the call returns
InstallOutcomes(host) ==
  IF host.os = SomeVal("windows") THEN {"exit", "err"} ELSE {"ok", "err"}

(* ------------------------------- state -------------------------------- *)

VARIABLES
  host,        \* what cfg! and bundle_type() report: os, arch, installer
  updater,     \* the Updater value produced by UpdaterBuilder::build
  pc,          \* position of the running Updater::check
  ck,          \* its locals: idx, remote_release, raw_json, last_error
  result,      \* its return value, once it has returned
  contacted,   \* history: the endpoint indexes requested, in request order
  answers,     \* history: the responses received, in the same order
  doc,         \* the JSON value handed to the deserializer
  parsed,      \* what the deserializer returned for doc
  resources,   \* the webview's resource table: rid -> Update or DownloadedBytes
  next_rid,    \* the next resource id the table hands out
  dl,          \* the download or download_and_install command in flight
  last,        \* history: the command that returned last, and what it did
  exited,      \* the process has exited (std::process::exit)
  consumed,    \* history: the bytes handles of the install commands that returned Ok
  inst,        \* install_inner: the bytes it is given and what its environment does
  disk,        \* install_inner: the install path and the backup of the current app
  steps,       \* install_inner: what it did, in order
  iret,        \* install_inner: how it ended
  ftable,      \* http plugin: the resources of one fetch that are in the resource table
  fut,         \* http plugin: the request future of the FetchRequest
  chan,        \* http plugin: the oneshot channel of AbortSender and AbortRecveiver
  fsend,       \* http plugin: position and return value of fetch_send
  fhist,       \* history: the fetch_cancel and fetch_read_body calls, in order
  esc_arg,     \* the argument handed to the escapers
  esc_msi,     \* what escape_msi_property_arg returned for it
  esc_nsis,    \* what escape_nsis_current_exe_arg returned for it
  mt,          \* macOS: the handoff of the privileged move to the main thread
  origin       \* history: for each bytes handle, the session handle it was downloaded through

checkVars == <<pc, ck, result, contacted, answers>>

parseVars == <<doc, parsed>>

cmdVars == <<resources, next_rid, dl, last, exited, consumed, origin>>

instVars == <<inst, disk, steps, iret>>

fetchVars == <<ftable, fut, chan, fsend, fhist>>

escVars == <<esc_arg, esc_msi, esc_nsis>>

vars == <<host, updater, pc, ck, result, contacted, answers, doc, parsed,
          resources, next_rid, dl, last, exited, consumed, inst, disk, steps, iret,
          ftable, fut, chan, fsend, fhist, esc_arg, esc_msi, esc_nsis, mt, origin>>

(* --------------------------- resource table --------------------------- *)

UpdateResource(u) == [type |-> "Update", update |-> u, bytes |-> <<>>]

DownloadedBytes(b) == [type |-> "DownloadedBytes", update |-> NoneVal, bytes |-> b]

\* ResourceTable::get::<T>: the id must be in the table and hold a T
get(table, type, rid) ==
  IF rid \in DOMAIN table /\ table[rid].type = type
    THEN Ok(table[rid])
    ELSE Err([kind |-> "BadResourceId"])

\* ResourceTable::add under the id rid
add(table, rid, resource) ==
  [r \in DOMAIN table \cup {rid} |-> IF r = rid THEN resource ELSE table[r]]

\* ResourceTable::close
close(table, rid) == [r \in DOMAIN table \ {rid} |-> table[r]]

(* ------------------------------- inputs -------------------------------- *)

Hosts ==
  { [os |-> SomeVal("linux"), arch |-> "x86_64", installer |-> SomeVal("deb")],
    [os |-> SomeVal("linux"), arch |-> "x86_64", installer |-> NoneVal],
    [os |-> NoneVal, arch |-> "x86_64", installer |-> NoneVal] }

K3 == FormatOsArchInstaller("linux", "x86_64", "deb")

K2 == FormatOsArch("linux", "x86_64")

KP == <<"custom">>

ManifestKeys == {K3, K2, KP}

UrlOf(k) == <<"https://cdn/">> \o k

SigOf(k) == <<"sig:">> \o k

GoodEntry(k) == [url |-> FOk(UrlOf(k)), signature |-> FOk(SigOf(k))]

PlatformMaps == { [k \in S |-> GoodEntry(k)] : S \in SUBSET ManifestKeys }

\* a JSON object with the members the deserializer looks at
Manifest(version, name, notes, pub_date, platforms, url, sig) ==
  [kind |-> "object",
   o |-> [version |-> version, name |-> name, notes |-> notes,
          pub_date |-> pub_date, platforms |-> platforms,
          url |-> url, signature |-> sig]]

PlainVersion(v) == FOk(VersionText(0, TextOf(v)))

StaticManifest(v, m) ==
  Manifest(PlainVersion(v), FAbsent, FAbsent, FAbsent, FOk(m), FAbsent, FAbsent)

DynamicManifest(v) ==
  Manifest(PlainVersion(v), FAbsent, FAbsent, FAbsent, FAbsent,
           FOk(<<"https://cdn/dynamic">>), FOk(<<"sig:dynamic">>))

NotJson == [kind |-> "notjson"]

JsonArray == [kind |-> "array"]

AVersion == [major |-> MaxVer, minor |-> 0, patch |-> 0, pre |-> <<>>]

\* bodies the deserializer rejects
WrongShapeBodies ==
  { JsonArray,
    Manifest(PlainVersion(AVersion), FAbsent, FAbsent, FAbsent, FAbsent,
             FAbsent, FOk(<<"sig:dynamic">>)) }

ReleaseBodies ==
  { StaticManifest(v, m) : v \in Versions, m \in PlatformMaps }
  \cup { DynamicManifest(v) : v \in Versions }

NoBody == [kind |-> "none"]

\* what one request of Updater::check can be answered with
Responses ==
  { [kind |-> "neterr"] }
  \cup { [kind |-> "http", status |-> s, body |-> NoBody] : s \in {NO_CONTENT, 404} }
  \cup { [kind |-> "http", status |-> 200, body |-> b] :
           b \in {NotJson} \cup WrongShapeBodies \cup ReleaseBodies }

CurrentVersions ==
  { v \in Versions : v.major = 0 /\ v.minor = MaxVer /\ v.patch = 0 /\ Len(v.pre) <= 1 }

Comparators == {NoneVal, SomeVal("neq")}

Updaters ==
  [endpoints : { [i \in 1..n |-> i] : n \in 1..MaxEndpoints },
   current_version : CurrentVersions,
   target : {NoneVal, SomeVal(KP)},
   version_comparator : Comparators,
   pubkey : {KeyText("trusted")},
   timeout : {NoneVal},
   proxy : {NoneVal},
   headers : {<<>>}]

\* the values the deserializer is applied to
VersionMembers ==
  {FAbsent, FNull, FBad}
  \cup { FOk(VersionText(n, c)) : n \in 0..MaxLeadingV, c \in {TextOf(AVersion), Garbage} }

PlatformsMembers ==
  {FAbsent, FNull, FBad, FOk(<<>>), FOk([k \in {K2} |-> GoodEntry(k)]),
   FOk([k \in {K2} |-> [url |-> FOk(UrlOf(k)), signature |-> FAbsent]]),
   FOk([k \in {K2} |-> [url |-> FOk(BadUrl), signature |-> FOk(SigOf(k))]])}

ParseDocs ==
  {NotJson, JsonArray}
  \cup { Manifest(v, n, nt, d, p, u, s) :
           v \in VersionMembers,
           n \in {FAbsent, PlainVersion(AVersion)},
           nt \in {FAbsent, FBad, FOk("notes")},
           d \in {FAbsent, FBad, FOk("rfc3339"), FOk("not a date")},
           p \in PlatformsMembers,
           u \in {FAbsent, FNull, FBad, FOk(BadUrl), FOk(<<"https://cdn/dynamic">>)},
           s \in {FAbsent, FNull, FBad, FOk(<<"sig:dynamic">>)} }

(* ------------------------------ actions -------------------------------- *)

IdleHost == [os |-> SomeVal("linux"), arch |-> "x86_64", installer |-> NoneVal]

IdleUpdater ==
  [endpoints |-> <<1>>, current_version |-> AVersion, target |-> NoneVal,
   version_comparator |-> NoneVal, pubkey |-> KeyText("trusted"), timeout |-> NoneVal,
   proxy |-> NoneVal, headers |-> <<>>]

CheckIdle ==
  /\ pc = "idle" /\ ck = CheckLocals /\ result = NoneVal
  /\ contacted = <<>> /\ answers = <<>>

ParseIdle == doc = NotJson /\ parsed = NoneVal

\* serde_json::from_value::<RemoteRelease> applied to doc
Deserialize ==
  /\ parsed = NoneVal
  /\ parsed' = SomeVal(DeserializeRemoteRelease(doc))
  /\ UNCHANGED <<host, updater, mt, instVars, fetchVars, escVars, doc, checkVars, cmdVars>>

\* Updater::check up to the for loop
CheckBegin ==
  /\ pc = "idle"
  /\ IF ~IsSome(updater.target) /\ ~IsSome(host.os)
       THEN /\ pc' = "done"
            /\ result' = SomeVal(Err([kind |-> "UnsupportedOs"]))
       ELSE /\ pc' = "loop"
            /\ result' = NoneVal
  /\ ck' = CheckLocals
  /\ contacted' = <<>>
  /\ answers' = <<>>
  /\ UNCHANGED <<host, updater, mt, instVars, fetchVars, escVars, parseVars, cmdVars>>

\* one request of the for loop and, when the loop is left by it, the rest
\* of Updater::check
CheckEndpoint ==
  /\ pc = "loop"
  /\ \E resp \in Responses :
       \E l \in {LoopBody(ck, resp)} :
       /\ contacted' = Append(contacted, ck.idx)
       /\ answers' = Append(answers, resp)
       /\ ck' = l
       /\ IF LoopLeft(updater, l)
            THEN /\ pc' = "done"
                 /\ result' = SomeVal(AfterLoop(updater, host, l))
            ELSE /\ pc' = "loop"
                 /\ result' = NoneVal
  /\ UNCHANGED <<host, updater, mt, instVars, fetchVars, escVars, parseVars, cmdVars>>

\* the caller has the result; the updater may be asked to check again
CheckReturn ==
  /\ pc = "done"
  /\ pc' = "idle"
  /\ ck' = CheckLocals
  /\ result' = NoneVal
  /\ contacted' = <<>>
  /\ answers' = <<>>
  /\ UNCHANGED <<host, updater, mt, instVars, fetchVars, escVars, parseVars, cmdVars>>

(* ------------------------------ commands ------------------------------ *)

\* at most MaxRid resources are ever added to the table
MaxRid == 2
\* a download stream delivers at most MaxChunks chunks
MaxChunks == 2

Chunks == { <<1>>, <<2>> }

\* the artifact the release server signed
SignedArtifact == <<1, 2>>

ManifestSignatures ==
  { SignatureText("trusted", SignedArtifact),
    SignatureText("attacker", SignedArtifact),
    MalformedSignature }

NewerVersion == [major |-> MaxVer, minor |-> 0, patch |-> 1, pre |-> <<>>]

\* what an endpoint answers in the runs of the commands
CmdResponses ==
  { [kind |-> "neterr"],
    [kind |-> "http", status |-> NO_CONTENT, body |-> NoBody] }
  \cup { [kind |-> "http", status |-> 200,
          body |-> Manifest(PlainVersion(NewerVersion), FAbsent, FAbsent, FAbsent, FAbsent,
                            FOk(<<"https://cdn/dynamic">>), FOk(sig))] :
           sig \in ManifestSignatures }

\* what the download URL answers: no answer, or a status
DownloadResponses ==
  { [kind |-> "neterr", status |-> 0, text |-> ""],
    [kind |-> "http", status |-> 404, text |-> "no such artifact"],
    [kind |-> "http", status |-> 200, text |-> ""] }

\* Error::Network(format!("Download request failed with status: {}", status))
NetworkError(response) ==
  [kind |-> "Network",
   message |-> <<"Download request failed with status: ", ToString(response.status)>>]

\* history of a download command that returned on the response to its request
WithResponse(ret, response) == ret @@ [response |-> response]

\* the headers and timeout arguments of the download commands
DownloadArgs ==
  { [headers |-> NoneVal, timeout |-> NoneVal],
    [headers |-> SomeVal(<<"x-token">>), timeout |-> SomeVal(5)] }

\* the timeout and allowDowngrades arguments of the check command
CheckArgs ==
  { [timeout |-> NoneVal, allow_downgrades |-> NoneVal],
    [timeout |-> SomeVal(5), allow_downgrades |-> SomeVal(TRUE)] }

Rids == 1..MaxRid

NoCommand == [cmd |-> "none", ret |-> NoneVal, installed |-> NoneVal, verified |-> NoneVal]

Returns(cmd, ret, installed, verified) ==
  [cmd |-> cmd, ret |-> SomeVal(ret), installed |-> installed, verified |-> verified]

NoDownload == [active |-> FALSE]

CmdIdle ==
  /\ resources = <<>> /\ next_rid = 1 /\ dl = NoDownload
  /\ last = NoCommand /\ exited = FALSE /\ consumed = <<>> /\ origin = <<>>

\* a builder on which allowDowngrades yields to the comparator of the plugin
CheckBuilderKeepsPlugin(timeout, allow_downgrades) ==
  [updater EXCEPT
     !.timeout = IF IsSome(timeout) THEN timeout ELSE @,
     !.version_comparator = IF allow_downgrades /\ ~IsSome(@) THEN SomeVal("neq") ELSE @]

\* the UpdaterBuilder of the check command: the plugin's builder with the
\* command's arguments applied
CheckBuilder(timeout, allow_downgrades) ==
  [updater EXCEPT
     !.timeout = IF IsSome(timeout) THEN timeout ELSE @,
     !.version_comparator = IF allow_downgrades THEN SomeVal("neq") ELSE @]

\* history of a check command that returned a session: the Updater it built
WithUpdater(ret, upd) == ret @@ [updater |-> upd]

\* Option::unwrap_or
unwrap_or(opt, default) == IF IsSome(opt) THEN opt.v ELSE default

\* history of a check command: with keep, its arguments and what the
\* endpoints answered
WithArgs(keep, ret, args, resps) ==
  IF keep THEN ret @@ [args |-> args, resps |-> resps] ELSE ret

\* the check command, its arguments drawn from Args and the answers of the
\* endpoints from Resps; keep says whether the history records them
CmdCheckWith(Args, Resps, keep) ==
  /\ ~exited
  /\ next_rid <= MaxRid
  /\ \E args \in Args :
       \E built \in {build(CheckBuilder(args.timeout,
                                        unwrap_or(args.allow_downgrades, FALSE)))} :
       IF ~IsOk(built)
         THEN /\ last' = WithArgs(keep, Returns("check", built, NoneVal, NoneVal), args, <<>>)
              /\ UNCHANGED <<resources, next_rid>>
         ELSE \E resps \in [1..Len(built.v.endpoints) -> Resps] :
                \E update \in {check(built.v, host, resps)} :
                IF IsOk(update) /\ IsSome(update.v)
                  THEN /\ resources' = add(resources, next_rid, UpdateResource(update.v.v))
                       /\ next_rid' = next_rid + 1
                       /\ last' = WithArgs(keep,
                                           WithUpdater(Returns("check", Ok(SomeVal(next_rid)),
                                                               NoneVal, NoneVal),
                                                       built.v),
                                           args, resps)
                  ELSE /\ last' = WithArgs(keep, Returns("check", update, NoneVal, NoneVal),
                                           args, resps)
                       /\ UNCHANGED <<resources, next_rid>>
  /\ UNCHANGED <<host, updater, mt, instVars, fetchVars, escVars, checkVars, parseVars, dl, exited, consumed, origin>>

\* the check command in the runs of all commands
CmdCheck == CmdCheckWith(CheckArgs, CmdResponses, FALSE)

\* the Updater configurations of the plugin in the runs of the check command
\* alone: no comparator, or a comparator of the application that accepts
\* every release ("always") or none ("never")
PluginComparators == {NoneVal, SomeVal("always"), SomeVal("never")}

\* the versions the endpoint offers: below, equal to and above AVersion
RemoteVersions ==
  { [AVersion EXCEPT !.major = m, !.pre = p] :
      m \in 0..MaxVer, p \in {<<>>, <<NumId(0)>>} }
  \cup {NewerVersion}

\* a release of each remote version for every target; the version field
\* records what the body was made from
VersionResponses ==
  { [kind |-> "http", status |-> 200, version |-> v,
     body |-> Manifest(PlainVersion(v), FAbsent, FAbsent, FAbsent, FAbsent,
                       FOk(<<"https://cdn/dynamic">>),
                       FOk(SignatureText("trusted", SignedArtifact)))] :
      v \in RemoteVersions }

\* allowDowngrades: unset, false or true
DowngradeArgs ==
  [timeout : {NoneVal}, allow_downgrades : {NoneVal, SomeVal(FALSE), SomeVal(TRUE)}]

\* the check command on releases of every remote version
CmdCheckVersions == CmdCheckWith(DowngradeArgs, VersionResponses, TRUE)

\* the update a download command works on: a clone of the session with the
\* command's headers and timeout
Overridden(update, headers, timeout) ==
  [update EXCEPT
     !.headers = IF IsSome(headers) THEN headers.v ELSE @,
     !.timeout = IF IsSome(timeout) THEN timeout ELSE @]

\* a download command that writes its headers and timeout into the session
\* of the resource table
SessionOverwritten(table, rid, update) == [table EXCEPT ![rid].update = update]

\* let mut update = (*update).clone(): the headers and the timeout of the
\* command are set on the clone, the session in the table is not written
SessionCloned(table, rid, update) == table

\* download and download_and_install up to the first chunk: the session is
\* looked up and cloned, the request is sent and its status examined
DownloadBegin ==
  /\ ~exited
  /\ ~dl.active
  /\ \E cmd \in {"download", "download_and_install"}, rid \in Rids :
       \E update \in {get(resources, "Update", rid)} :
       IF ~IsOk(update)
         THEN /\ last' = Returns(cmd, update, NoneVal, NoneVal)
              /\ dl' = dl
              /\ resources' = resources
       ELSE \E args \in DownloadArgs, response \in DownloadResponses :
         /\ resources' = SessionCloned(resources, rid,
                                       Overridden(update.v.update, args.headers, args.timeout))
         /\ IF response.kind = "neterr"
              THEN /\ last' = WithResponse(Returns(cmd, Err([kind |-> "Reqwest"]), NoneVal, NoneVal),
                                          response)
                   /\ dl' = dl
            ELSE IF ~is_success(response.status)
              THEN /\ last' = WithResponse(Returns(cmd, Err(NetworkError(response)),
                                                  NoneVal, NoneVal),
                                          response)
                   /\ dl' = dl
            ELSE /\ dl' = [active |-> TRUE, cmd |-> cmd, rid |-> rid,
                           update |-> Overridden(update.v.update, args.headers, args.timeout),
                           buffer |-> <<>>, chunks |-> 0, first_chunk |-> TRUE,
                           events |-> <<>>, calls |-> <<>>, args |-> args]
                 /\ last' = last
  /\ UNCHANGED <<host, updater, mt, instVars, fetchVars, escVars, checkVars, parseVars, next_rid, exited,
                 consumed, origin>>

\* what Update::download does, in order: calls of its two callbacks,
\* appends to its buffer, the signature verification
OnChunkCall(chunk) == <<"on_chunk", chunk>>

ExtendCall(chunk) == <<"extend", chunk>>

OnFinishCall == <<"on_download_finish">>

VerifyCall == <<"verify_signature">>

\* DownloadEvent, as sent on the on_event channel of a download command; the
\* content_length of Started is left out
Started == <<"Started">>

Progress(chunk_length) == <<"Progress", chunk_length>>

Finished == <<"Finished">>

\* ReceiveChunk with a closure that sends Started with every chunk
ReceiveChunkStartsEach(d, chunk) ==
  [d EXCEPT
     !.calls = @ \o <<OnChunkCall(chunk), ExtendCall(chunk)>>,
     !.events = @ \o <<Started, Progress(Len(chunk))>>,
     !.first_chunk = FALSE,
     !.buffer = @ \o chunk,
     !.chunks = @ + 1]

\* ReceiveChunk appending the chunk before on_chunk is called
ReceiveChunkAppendFirst(d, chunk) ==
  [d EXCEPT
     !.calls = @ \o <<ExtendCall(chunk), OnChunkCall(chunk)>>,
     !.events = @ \o (IF d.first_chunk THEN <<Started>> ELSE <<>>)
                  \o <<Progress(Len(chunk))>>,
     !.first_chunk = FALSE,
     !.buffer = @ \o chunk,
     !.chunks = @ + 1]

\* the body of the while loop of Update::download on a chunk: on_chunk
\* (the closure of the command: Started on the first chunk, then Progress),
\* then buffer.extend
ReceiveChunk(d, chunk) ==
  [d EXCEPT
     !.calls = @ \o <<OnChunkCall(chunk), ExtendCall(chunk)>>,
     !.events = @ \o (IF d.first_chunk THEN <<Started>> ELSE <<>>)
                  \o <<Progress(Len(chunk))>>,
     !.first_chunk = FALSE,
     !.buffer = @ \o chunk,
     !.chunks = @ + 1]

\* the stream has ended: on_download_finish, then verify_signature
FinishCalls == <<OnFinishCall, VerifyCall>>

\* history of a download that returned: what Update::download did after
\* the last turn of its while loop
WithCalls(ret, calls) == ret @@ [calls |-> calls]

\* the chunks in the calls of a running download: each turn of the loop
\* makes two calls, both with the chunk
ChunksHanded(calls) == [k \in 1..(Len(calls) \div 2) |-> calls[2 * k - 1][2]]

\* history of a download command that returned after its request succeeded:
\* with keep, the events it sent on its channel, the chunks of the stream
\* that Update::download handed to on_chunk, and the handle and arguments of
\* the command
WithEvents(keep, ret, events, d) ==
  IF keep
    THEN ret @@ [events |-> events, stream |-> ChunksHanded(d.calls),
                 rid |-> d.rid, args |-> d.args]
    ELSE ret

\* the closure given as on_download_finish: Finished is sent
OnDownloadFinish(events) == Append(events, Finished)

\* one turn of the while loop of Update::download: the stream yields a
\* chunk out of Cs, on_chunk runs, the chunk is appended to the buffer
DownloadChunkFrom(Cs) ==
  /\ ~exited
  /\ dl.active
  /\ dl.chunks < MaxChunks
  /\ \E chunk \in Cs : dl' = ReceiveChunk(dl, chunk)
  /\ UNCHANGED <<host, updater, mt, instVars, fetchVars, escVars, checkVars, parseVars, resources, next_rid, last, exited,
                 consumed, origin>>

\* one turn of the while loop in the runs of all commands
DownloadChunk == DownloadChunkFrom(Chunks)

\* the stream yields an error: chunk? returns it
DownloadStreamErrorWith(keep) ==
  /\ ~exited
  /\ dl.active
  /\ last' = WithEvents(keep,
                        WithCalls(Returns(dl.cmd, Err([kind |-> "Reqwest"]), NoneVal, NoneVal),
                                  <<>>),
                        dl.events, dl)
  /\ dl' = NoDownload
  /\ UNCHANGED <<host, updater, mt, instVars, fetchVars, escVars, checkVars, parseVars, resources, next_rid, exited,
                 consumed, origin>>

\* the stream ends: on_download_finish, verify_signature, and then the rest
\* of the command: the bytes become a resource (download) or are installed
\* (download_and_install); with keep, the histories of the channel and of
\* the bytes handle are kept
DownloadFinishWith(keep) ==
  /\ ~exited
  /\ dl.active
  /\ LET v == verify_signature(dl.buffer, dl.update.signature, dl.update.pubkey)
         verified == SomeVal([bytes |-> dl.buffer, signature |-> dl.update.signature])
         Finish(ret, calls) ==
           WithEvents(keep, WithCalls(ret, calls), OnDownloadFinish(dl.events), dl)
     IN
     IF ~IsOk(v)
       THEN /\ last' = Finish(Returns(dl.cmd, v, NoneVal, verified), FinishCalls)
            /\ UNCHANGED <<resources, next_rid, exited, origin>>
     ELSE IF dl.cmd = "download"
       THEN /\ resources' = add(resources, next_rid, DownloadedBytes(dl.buffer))
            /\ next_rid' = next_rid + 1
            /\ origin' = IF keep
                           THEN Append(origin, [bytes_rid |-> next_rid, update_rid |-> dl.rid])
                           ELSE origin
            /\ last' = Finish(Returns(dl.cmd, Ok(next_rid), NoneVal, verified),
                                 FinishCalls)
            /\ UNCHANGED exited
     ELSE \E outcome \in InstallOutcomes(host) :
            /\ last' = Finish(Returns(dl.cmd,
                                         IF outcome = "err" THEN Err([kind |-> "Install"])
                                         ELSE Ok(outcome),
                                         SomeVal([update |-> dl.update, bytes |-> dl.buffer]),
                                         verified),
                                 FinishCalls)
            /\ exited' = (outcome = "exit")
            /\ UNCHANGED <<resources, next_rid, origin>>
  /\ dl' = NoDownload
  /\ UNCHANGED <<host, updater, mt, instVars, fetchVars, escVars, checkVars, parseVars, consumed>>

\* the stream yields an error, in the runs of all commands
DownloadStreamError == DownloadStreamErrorWith(FALSE)

\* the stream ends, in the runs of all commands
DownloadFinish == next_rid <= MaxRid /\ DownloadFinishWith(FALSE)

\* chunks of more than one length, for the runs of the download commands alone
SizedChunks == { <<1>>, <<2>>, <<1, 2>> }

\* the download commands with the history of their channel kept
DownloadChunkSized == DownloadChunkFrom(SizedChunks)

DownloadStreamErrorKept == DownloadStreamErrorWith(TRUE)

DownloadFinishKept == next_rid <= MaxRid /\ DownloadFinishWith(TRUE)

\* history of an install command: the bytes handle it was called with
WithBytesRid(ret, bytes_rid) == ret @@ [bytes_rid |-> bytes_rid]

\* install that leaves the bytes in the resource table
InstallKeepsBytes(table, bytes_rid) == table

\* the install command after a successful Update::install:
\* webview.resources_table().close(bytes_rid)
InstallClosesBytes(table, bytes_rid) == close(table, bytes_rid)

\* history of an install command: with keep, the session handle it was
\* called with
WithUpdateRid(keep, ret, update_rid) ==
  IF keep THEN ret @@ [update_rid |-> update_rid] ELSE ret

\* the install command, its handles drawn from R
InstallFrom(R, keep) ==
  /\ ~exited
  /\ \E update_rid \in R, bytes_rid \in R :
       LET update == get(resources, "Update", update_rid)
           bytes == get(resources, "DownloadedBytes", bytes_rid)
           History(ret, rid) == WithUpdateRid(keep, WithBytesRid(ret, rid), update_rid)
       IN
       IF ~IsOk(update)
         THEN /\ last' = History(Returns("install", update, NoneVal, NoneVal), bytes_rid)
              /\ UNCHANGED <<resources, exited, consumed>>
       ELSE IF ~IsOk(bytes)
         THEN /\ last' = History(Returns("install", bytes, NoneVal, NoneVal), bytes_rid)
              /\ UNCHANGED <<resources, exited, consumed>>
       ELSE \E outcome \in InstallOutcomes(host) :
              /\ last' = History(
                           Returns("install",
                                   IF outcome = "err" THEN Err([kind |-> "Install"])
                                   ELSE Ok(outcome),
                                   SomeVal([update |-> update.v.update, bytes |-> bytes.v.bytes,
                                            bytes_rid |-> bytes_rid]),
                                   NoneVal),
                           bytes_rid)
              /\ resources' = IF outcome = "ok" THEN InstallClosesBytes(resources, bytes_rid)
                              ELSE resources
              /\ consumed' = IF outcome = "ok" THEN Append(consumed, bytes_rid) ELSE consumed
              /\ exited' = (outcome = "exit")
  /\ UNCHANGED <<host, updater, mt, instVars, fetchVars, escVars, checkVars, parseVars, next_rid, dl, origin>>

\* the install command in the runs of all commands
Install == InstallFrom(Rids, FALSE)

\* handles in the runs of two sessions: two sessions and the bytes of a download
MaxSessionRid == 3

\* the download and install commands with the history of their handles kept
DownloadFinishTraced == next_rid <= MaxSessionRid /\ DownloadFinishWith(TRUE)

InstallTraced == InstallFrom(1..MaxSessionRid, TRUE)

(* -------------------------- Update::install ---------------------------- *)

\* the running state of install_inner: the disk, the steps taken so far and,
\* once it has ended, how
Execution(d) == [disk |-> d, steps |-> <<>>, ret |-> NoneVal]

Do(e, step) == [e EXCEPT !.steps = Append(@, step)]

Return(e, r) == [e EXCEPT !.ret = SomeVal(r)]

Ended(e) == IsSome(e.ret)

IoError == [kind |-> "Io"]

\* std::process::exit(0): the call does not return
Exited == [tag |-> "Exit"]

\* a thread that unwound from a panic: unwrap or expect on an Err, a slice
\* index out of range
Panicked == [tag |-> "Panic"]

\* the install path holds the app that is running; no backup exists
OriginalDisk == [target |-> "original", backup |-> "absent"]

\* std::fs::rename(&self.extract_path, backup)
RenameToBackup(d) == [d EXCEPT !.target = "absent", !.backup = d.target]

\* RestoreBackup that leaves the install path as the failed step left it
RestoreBackupSkipped(d) == d

\* std::fs::rename(backup, &self.extract_path)
RestoreBackup(d) == [d EXCEPT !.target = d.backup, !.backup = "absent"]

\* the TempDir holding the backup is dropped when the function returns
DropTempDir(e) == [e EXCEPT !.disk.backup = "absent"]

\* infer::archive::is_zip, is_gz, is_deb, is_rpm, is_msi and infer::app::is_exe
is_zip(bytes) == bytes.format = "zip"

is_gz(bytes) == bytes.format = "gz"

is_deb(bytes) == bytes.format = "deb"

is_rpm(bytes) == bytes.format = "rpm"

is_exe(bytes) == bytes.format = "exe"

is_msi(bytes) == bytes.format = "msi"

(* Windows *)

\* Update::write_to_temp
write_to_temp(i, e, type) ==
  LET e1 == Do(e, "tempdir") IN
  IF i.fail = "tempdir" THEN Return(e1, Err(IoError))
  ELSE LET e2 == Do(e1, "write_temp") IN
       IF i.fail = "write_temp" THEN Return(e2, Err(IoError))
       ELSE [e2 EXCEPT !.updater_type = type]

\* Update::extract_exe
extract_exe(i, e) ==
  LET e1 == Do(e, "is_exe") IN
  IF is_exe(i.bytes) THEN write_to_temp(i, e1, "nsis")
  ELSE LET e2 == Do(e1, "is_msi") IN
       IF is_msi(i.bytes) THEN write_to_temp(i, e2, "msi")
       ELSE Return(e2, Err([kind |-> "InvalidUpdaterFormat"]))

\* Update::extract_zip: the installer is the first extracted file named
\* *.exe or *.msi; ZipArchive::new and extract fail on bytes that are no
\* readable archive (entry "corrupt") and on a failing file system
extract_zip(i, e) ==
  LET e1 == Do(e, "tempdir") IN
  IF i.fail = "tempdir" THEN Return(e1, Err(IoError))
  ELSE LET e2 == Do(e1, "unzip") IN
       IF i.fail = "unzip" \/ i.bytes.entry = "corrupt"
         THEN Return(e2, Err([kind |-> "Extract"]))
       ELSE LET e3 == Do(e2, "read_dir") IN
            IF i.fail = "read_dir" THEN Return(e3, Err(IoError))
            ELSE IF i.bytes.entry = "exe" THEN [e3 EXCEPT !.updater_type = "nsis"]
            ELSE IF i.bytes.entry = "msi" THEN [e3 EXCEPT !.updater_type = "msi"]
            ELSE Return(e3, Err([kind |-> "BinaryNotFoundInArchive"]))

\* Update::extract
extract(i, e) ==
  IF i.zip /\ is_zip(i.bytes) THEN extract_zip(i, Do(e, "is_zip"))
  ELSE extract_exe(i, IF i.zip THEN Do(e, "is_zip") ELSE e)

\* UpdaterExt::updater_builder and UpdaterBuilder::new: current_exe_args
\* starts empty and is extended by the arguments of the process if the host
\* reports any
RecordedArgs(args_os) == IF args_os # <<>> THEN <<>> \o args_os ELSE <<>>

\* &self.current_exe_args()[1..]: the index is in range
SliceFrom1(args) == 1 <= Len(args)

\* Update::install_inner, cfg(windows)
install_inner_windows(i, e) ==
  LET e1 == extract(i, [disk |-> e.disk, steps |-> e.steps, ret |-> e.ret,
                        updater_type |-> "none"])
      e1a == Do(e1, "current_args")
      e2 == IF i.hook THEN Do(e1a, "on_before_exit") ELSE e1a
      e3 == Do(Do(e2, "ShellExecuteW"), "exit")
  IN IF Ended(e1) THEN e1
     ELSE IF ~SliceFrom1(RecordedArgs(i.args_os)) THEN Return(e1a, Panicked)
     ELSE Return(e3, Exited)

(* Linux *)

\* the number of temp dir locations tried by install_appimage and
\* try_tmp_locations: temp_dir, cache_dir, the parent of the install path
TmpDirLocations == 3

\* the body of the for loop of install_appimage once a temp dir on the
\* device of the install path is found
AppImageInPlace(i, e) ==
  LET e1 == Do(e, "set_permissions_tmp") IN
  IF i.fail = "set_permissions_tmp" THEN Return(e1, Err(IoError))
  ELSE LET e2 == Do(e1, "rename_to_backup") IN
  IF i.fail = "rename_to_backup" THEN Return(e2, Err(IoError))
  ELSE LET e3 == [e2 EXCEPT !.disk = RenameToBackup(@)] IN
  IF i.zip /\ is_gz(i.bytes)
    THEN LET e4 == Do(e3, "is_gz") IN
         IF i.bytes.entry = "AppImage"
           THEN LET e5 == Do(e4, "unpack") IN
                IF i.fail = "unpack"
                  THEN Return([Do(e5, "restore_backup") EXCEPT
                                 !.disk = RestoreBackup([e5.disk EXCEPT !.target = "partial"])],
                              Err(IoError))
                  ELSE Return([e5 EXCEPT !.disk.target = "new"], Ok(TRUE))
           ELSE Return([Do(e4, "restore_backup") EXCEPT !.disk = RestoreBackup(e4.disk)],
                       Err([kind |-> "BinaryNotFoundInArchive"]))
    ELSE LET e4 == Do(IF i.zip THEN Do(e3, "is_gz") ELSE e3, "write") IN
         IF i.fail = "write"
           THEN Return([Do(e4, "restore_backup") EXCEPT
                          !.disk = RestoreBackup([e4.disk EXCEPT !.target = "partial"])],
                       Err(IoError))
         ELSE LET e5 == Do([e4 EXCEPT !.disk.target = "new"], "set_permissions") IN
              IF i.fail = "set_permissions"
                THEN Return([Do(e5, "restore_backup") EXCEPT !.disk = RestoreBackup(e5.disk)],
                            Err(IoError))
                ELSE Return(e5, Ok(TRUE))

\* the for loop of install_appimage from location n on; dirs::cache_dir,
\* the second location, can be None
RECURSIVE AppImageLocations(_, _, _)
AppImageLocations(i, e, n) ==
  IF n > TmpDirLocations THEN Return(e, Err([kind |-> "TempDirNotOnSameMountPoint"]))
  ELSE IF n = 2 /\ i.no_cache THEN AppImageLocations(i, e, n + 1)
  ELSE LET e1 == Do(e, "tempdir") IN
       IF i.fail = "tempdir" THEN Return(e1, Err(IoError))
       ELSE IF i.same_dev = n THEN DropTempDir(AppImageInPlace(i, e1))
       ELSE AppImageLocations(i, e1, n + 1)

\* Update::install_appimage
install_appimage(i, e) ==
  LET e1 == Do(e, "metadata") IN
  IF i.fail = "metadata" THEN Return(e1, Err(IoError))
  ELSE AppImageLocations(i, e1, 1)

\* Update::get_password_graphically: zenity, then kdialog
get_password_graphically(i, e) ==
  LET e1 == Do(e, "zenity") IN
  IF i.procs.zenity = "ok" THEN [e1 EXCEPT !.password = TRUE]
  ELSE LET e2 == Do(e1, "kdialog") IN
       IF i.procs.kdialog = "ok" THEN [e2 EXCEPT !.password = TRUE]
       ELSE [e2 EXCEPT !.password = FALSE]

\* Update::install_with_sudo: the result is in field sudo: Ok(success) or Err
install_with_sudo(i, e) ==
  LET e1 == Do(e, "sudo -S") IN
  IF i.procs.sudo_stdin \in {"nospawn", "pipe"} THEN [e1 EXCEPT !.sudo = Err(IoError)]
  ELSE [e1 EXCEPT !.sudo = Ok(i.procs.sudo_stdin = "ok")]

\* the terminal sudo of try_install_with_privileges
TerminalSudo(i, e) ==
  LET e1 == Do(e, "sudo") IN
  IF i.procs.sudo = "nospawn" THEN Return(e1, Err(IoError))
  ELSE IF i.procs.sudo = "ok" THEN Return(e1, Ok(TRUE))
  ELSE Return(e1, Err([kind |-> "PackageInstallFailed"]))

\* Update::try_install_with_privileges
try_install_with_privileges(i, e) ==
  LET e1 == Do(e, "pkexec") IN
  IF i.procs.pkexec = "ok" THEN Return(e1, Ok(TRUE))
  ELSE LET e2 == get_password_graphically(i, [disk |-> e1.disk, steps |-> e1.steps,
                                             ret |-> e1.ret, password |-> FALSE,
                                             sudo |-> Ok(FALSE)])
           e3 == install_with_sudo(i, e2)
           plain(x) == [disk |-> x.disk, steps |-> x.steps, ret |-> x.ret]
       IN IF ~e2.password THEN TerminalSudo(i, plain(e2))
          ELSE IF ~IsOk(e3.sudo) THEN Return(plain(e3), e3.sudo)
          ELSE IF e3.sudo.v THEN Return(plain(e3), Ok(TRUE))
          ELSE TerminalSudo(i, plain(e3))

\* Update::try_tmp_locations from location n on
RECURSIVE try_tmp_locations(_, _, _)
try_tmp_locations(i, e, n) ==
  IF n > TmpDirLocations THEN Return(e, Err([kind |-> "TempDirNotFound"]))
  ELSE IF i.tmp[n] = "notemp" THEN try_tmp_locations(i, Do(e, "tempdir"), n + 1)
  ELSE LET e1 == Do(Do(e, "tempdir"), "write_pkg") IN
       IF i.tmp[n] = "ok" THEN try_install_with_privileges(i, e1)
       ELSE try_tmp_locations(i, e1, n + 1)

\* install_deb that goes on to the temp locations whatever the sniff says
install_debUnchecked(i, e) == try_tmp_locations(i, Do(e, "is_deb"), 1)

\* Update::install_deb
install_deb(i, e) ==
  LET e1 == Do(e, "is_deb") IN
  IF ~is_deb(i.bytes) THEN Return(e1, Err([kind |-> "InvalidUpdaterFormat"]))
  ELSE try_tmp_locations(i, e1, 1)

\* Update::install_rpm
install_rpm(i, e) ==
  LET e1 == Do(e, "is_rpm") IN
  IF ~is_rpm(i.bytes) THEN Return(e1, Err([kind |-> "InvalidUpdaterFormat"]))
  ELSE try_tmp_locations(i, e1, 1)

\* Update::install_inner, cfg(linux)
install_inner_linux(h, i, e) ==
  IF h.installer = SomeVal("deb") THEN install_deb(i, e)
  ELSE IF h.installer = SomeVal("rpm") THEN install_rpm(i, e)
  ELSE install_appimage(i, e)

(* macOS *)

\* the privileged script rm -rf src && mv -f new src, by its outcome: it ran
\* through, it was not authorized, or rm ran and mv failed
PrivilegedReplace(i, e) ==
  LET e1 == Do(e, "privileged_replace") IN
  IF i.script = "ok" THEN Return(Do([e1 EXCEPT !.disk.target = "new"], "touch"), Ok(TRUE))
  ELSE IF i.script = "denied" THEN Return(e1, Err(IoError))
  ELSE Return([e1 EXCEPT !.disk.target = "absent"], Err(IoError))

\* Update::install_inner, cfg(macos)
install_inner_macos(i, e) ==
  LET e1 == Do(e, "tempdir") IN
  IF i.fail = "tempdir" THEN Return(e1, Err(IoError))
  ELSE LET e2 == Do(e1, "decode") IN
  IF ~is_gz(i.bytes) THEN Return(e2, Err(IoError))
  ELSE LET e3 == Do(e2, "unpack") IN
  IF i.fail = "unpack" THEN Return(e3, Err(IoError))
  ELSE LET e4 == Do(e3, "rename_to_backup") IN
  IF i.fail = "rename_to_backup" THEN Return(e4, Err(IoError))
  ELSE IF i.fail = "rename_to_backup_denied" THEN PrivilegedReplace(i, e4)
  ELSE LET e5 == Do([e4 EXCEPT !.disk = RenameToBackup(@)], "rename_new") IN
       IF i.fail = "rename_new" THEN DropTempDir(Return(e5, Err(IoError)))
       ELSE DropTempDir(Return(Do([e5 EXCEPT !.disk.target = "new"], "touch"), Ok(TRUE)))

\* Update::install_inner of the build for host h
install_inner(h, i, e) ==
  IF h.os = SomeVal("windows") THEN install_inner_windows(i, e)
  ELSE IF h.os = SomeVal("darwin") THEN install_inner_macos(i, e)
  ELSE install_inner_linux(h, i, e)

(* install_inner: inputs *)

Payload(format, entry) == [format |-> format, entry |-> entry]

\* every process of the elevation exits unsuccessfully
AllProcsFail ==
  [pkexec |-> "fail", zenity |-> "fail", kdialog |-> "fail",
   sudo_stdin |-> "fail", sudo |-> "fail"]

\* a process exits successfully, exits unsuccessfully or cannot be spawned;
\* for sudo -S the write of the password to its stdin can fail as well
ProcOutcomes ==
  [pkexec : {"ok", "fail", "nospawn"},
   zenity : {"ok", "fail", "nospawn"},
   kdialog : {"ok", "fail", "nospawn"},
   sudo_stdin : {"ok", "fail", "nospawn", "pipe"},
   sudo : {"ok", "fail", "nospawn"}]

\* per temp dir location: no temp dir could be made there, the package
\* could not be written there, or both worked
TmpOutcomes ==
  { <<"ok", "ok", "ok">>, <<"nowrite", "ok", "ok">>, <<"notemp", "nowrite", "ok">>,
    <<"notemp", "notemp", "notemp">>, <<"nowrite", "nowrite", "nowrite">> }

\* an update with the hook set, the zip feature on, and an environment in
\* which no file operation fails
InstallOf(bytes) ==
  [bytes |-> bytes, hook |-> TRUE, zip |-> TRUE, fail |-> "none", same_dev |-> 1,
   no_cache |-> FALSE, args_os |-> <<"app">>,
   tmp |-> <<"ok", "ok", "ok">>, procs |-> AllProcsFail, script |-> "ok"]

\* what the host reports as the arguments of the process: nothing, the
\* program name, the program name and an argument
ProcessArgs == { <<>>, <<"app">>, <<"app", "--flag">> }

WindowsPayloads ==
  { Payload("zip", "exe"), Payload("zip", "msi"), Payload("zip", "none"),
    Payload("zip", "corrupt"),
    Payload("exe", "none"), Payload("msi", "none"), Payload("other", "none") }

WindowsInstalls ==
  { [InstallOf(b) EXCEPT !.hook = h, !.zip = z, !.fail = f, !.args_os = a] :
      b \in WindowsPayloads, h \in BOOLEAN, z \in BOOLEAN, a \in ProcessArgs,
      f \in {"none", "tempdir", "unzip", "read_dir", "write_temp"} }

AppImagePayloads ==
  { Payload("gz", "AppImage"), Payload("gz", "none"),
    Payload("appimage", "none"), Payload("other", "none") }

AppImageInstalls ==
  { [InstallOf(b) EXCEPT !.hook = h, !.zip = z, !.fail = f, !.same_dev = n, !.no_cache = c] :
      b \in AppImagePayloads, h \in BOOLEAN, z \in BOOLEAN, n \in 0..TmpDirLocations,
      c \in BOOLEAN,
      f \in {"none", "metadata", "tempdir", "set_permissions_tmp", "rename_to_backup",
             "unpack", "write", "set_permissions"} }

PackagePayloads ==
  { Payload("deb", "none"), Payload("rpm", "none"),
    Payload("gz", "none"), Payload("other", "none") }

PackageInstalls ==
  { [InstallOf(b) EXCEPT !.hook = h, !.tmp = t] :
      b \in PackagePayloads, h \in BOOLEAN, t \in TmpOutcomes }
  \cup { [InstallOf(b) EXCEPT !.procs = p] :
           b \in {Payload("deb", "none"), Payload("rpm", "none")}, p \in ProcOutcomes }

MacPayloads == { Payload("gz", "app"), Payload("other", "none") }

MacInstalls ==
  { [InstallOf(b) EXCEPT !.hook = h, !.fail = f, !.script = s] :
      b \in MacPayloads, h \in BOOLEAN, s \in {"ok", "denied", "rm_only"},
      f \in {"none", "tempdir", "unpack", "rename_to_backup", "rename_to_backup_denied",
             "rename_new"} }

InstHosts ==
  { [os |-> SomeVal("windows"), arch |-> "x86_64", installer |-> SomeVal("nsis")],
    [os |-> SomeVal("linux"), arch |-> "x86_64", installer |-> NoneVal],
    [os |-> SomeVal("linux"), arch |-> "x86_64", installer |-> SomeVal("appimage")],
    [os |-> SomeVal("linux"), arch |-> "x86_64", installer |-> SomeVal("deb")],
    [os |-> SomeVal("linux"), arch |-> "x86_64", installer |-> SomeVal("rpm")],
    [os |-> SomeVal("darwin"), arch |-> "x86_64", installer |-> SomeVal("app")] }

IsPackageHost(h) == h.os = SomeVal("linux") /\ h.installer \in {SomeVal("deb"), SomeVal("rpm")}

IsAppImageHost(h) == h.os = SomeVal("linux") /\ ~IsPackageHost(h)

InstallsOn(h) ==
  IF h.os = SomeVal("windows") THEN WindowsInstalls
  ELSE IF h.os = SomeVal("darwin") THEN MacInstalls
  ELSE IF IsPackageHost(h) THEN PackageInstalls
  ELSE AppImageInstalls

InstallIdle ==
  /\ inst = InstallOf(Payload("other", "none")) /\ disk = OriginalDisk
  /\ steps = <<>> /\ iret = NoneVal

(* install_inner: actions *)

\* install_inner runs from its first statement to its return or exit
RunInstall ==
  /\ iret = NoneVal
  /\ \E e \in {install_inner(host, inst, Execution(disk))} :
       /\ disk' = e.disk
       /\ steps' = e.steps
       /\ iret' = e.ret
  /\ UNCHANGED <<host, updater, mt, inst, checkVars, parseVars, cmdVars, fetchVars, escVars>>

InstallWindows == host.os = SomeVal("windows") /\ RunInstall

InstallAppImage == IsAppImageHost(host) /\ RunInstall

InstallPackage == IsPackageHost(host) /\ RunInstall

InstallMacos == host.os = SomeVal("darwin") /\ RunInstall

(* ------------- macOS: the privileged move on the main thread ------------- *)

\* no install is running: no channel, no closure
NoHandoff ==
  [task |-> "idle", closure |-> "none", tx |-> "none", msg |-> NoneVal, res |-> NoneVal]

HandoffIdle == mt = NoHandoff

\* what run_on_main_thread does with the closure: it queues it and returns
\* Ok, or it returns Err and has dropped the closure, kept it without ever
\* running it, or queued it all the same
Dispatches ==
  { [res |-> "ok", closure |-> "queued"],
    [res |-> "err", closure |-> "dropped"],
    [res |-> "err", closure |-> "leaked"],
    [res |-> "err", closure |-> "queued"] }

\* install_inner reaches need_authorization = true
NeedsAuthorization(e) == \E k \in 1..Len(e.steps) : e.steps[k] = "privileged_replace"

\* the steps of install_inner before the privileged move
StepsBeforeScript(e) ==
  SubSeq(e.steps, 1, (CHOOSE k \in 1..Len(e.steps) : e.steps[k] = "privileged_replace") - 1)

\* install_inner, cfg(macos), up to rx.recv(): either it returns without the
\* privileged move, or it makes the channel, hands the closure (which owns
\* tx) to run_on_main_thread and waits on rx
MacBegin ==
  /\ host.os = SomeVal("darwin")
  /\ mt.task = "idle"
  /\ \E e \in {install_inner_macos(inst, Execution(disk))} :
       IF ~NeedsAuthorization(e)
         THEN /\ disk' = e.disk /\ steps' = e.steps /\ iret' = e.ret
              /\ mt' = [mt EXCEPT !.task = "done"]
         ELSE /\ \E d \in Dispatches :
                   mt' = [task |-> "recv", closure |-> d.closure,
                          tx |-> IF d.closure = "dropped" THEN "dropped" ELSE "alive",
                          msg |-> NoneVal, res |-> SomeVal(d.res)]
              /\ steps' = StepsBeforeScript(e)
              /\ UNCHANGED <<disk, iret>>
  /\ UNCHANGED <<host, updater, inst, checkVars, parseVars, cmdVars, fetchVars, escVars>>

\* the closure on the main thread: script.compile().expect("invalid
\* AppleScript"); a panic unwinds the closure and drops tx
MainCompile ==
  /\ mt.closure = "queued"
  /\ \E compiled \in BOOLEAN :
       mt' = IF compiled THEN [mt EXCEPT !.closure = "compiled"]
             ELSE [mt EXCEPT !.closure = "panicked", !.tx = "dropped"]
  /\ UNCHANGED <<host, updater, instVars, checkVars, parseVars, cmdVars, fetchVars, escVars>>

\* the closure on the main thread: let r = script.execute(); tx.send(r).unwrap();
\* rx is alive, the installing task holds it until recv returns
MainExecute ==
  /\ mt.closure = "compiled"
  /\ \E e \in {PrivilegedReplace(inst, [Execution(disk) EXCEPT !.steps = steps])} :
       /\ disk' = e.disk
       /\ steps' = Append(steps, "privileged_replace")
       /\ mt' = [mt EXCEPT !.closure = "done", !.tx = "dropped",
                           !.msg = SomeVal(IF IsOk(e.ret.v) THEN "ok" ELSE "err")]
  /\ UNCHANGED <<host, updater, inst, iret, checkVars, parseVars, cmdVars, fetchVars, escVars>>

\* rx.recv().unwrap() and the rest of install_inner: recv returns the message,
\* or Err once tx is dropped with no message sent, and blocks otherwise
MacRecv ==
  /\ mt.task = "recv"
  /\ IsSome(mt.msg) \/ mt.tx = "dropped"
  /\ IF ~IsSome(mt.msg)
       THEN /\ iret' = SomeVal(Panicked)
            /\ steps' = steps
       ELSE IF mt.res.v = "err" \/ mt.msg.v = "err"
         THEN /\ iret' = SomeVal(Err(IoError))
              /\ steps' = steps
         ELSE /\ iret' = SomeVal(Ok(TRUE))
              /\ steps' = Append(steps, "touch")
  /\ mt' = [mt EXCEPT !.task = "done"]
  /\ UNCHANGED <<host, updater, inst, disk, checkVars, parseVars, cmdVars, fetchVars, escVars>>

(* ------------------------ http plugin: fetch --------------------------- *)

\* fetch_cancel and fetch_read_body are called at most MaxFetchCalls times
MaxFetchCalls == 2

\* ResourceTable::add_request: the request and the two ends of its channel
RequestResources == {"FetchRequest", "AbortSender", "AbortRecveiver"}

\* the future of an http(s) request: request.send() starts the request at
\* its first poll and ends with a response or with an error
HttpFuture(outcome) == [kind |-> "http", state |-> "unpolled", outcome |-> outcome]

\* the future of a data: URL: async move { Ok(response) }, ready at its
\* first poll
DataFuture == [kind |-> "data", state |-> "ready", outcome |-> "response"]

FetchFutures == {HttpFuture("response"), HttpFuture("error"), DataFuture}

\* the state after the fetch command returned the rid of its request
FetchMade ==
  /\ ftable = RequestResources
  /\ fut \in FetchFutures
  /\ chan = "open"
  /\ fsend = [pc |-> "idle", ret |-> NoneVal]
  /\ fhist = <<>>

\* no fetch was made
FetchIdle ==
  /\ ftable = {} /\ fut = DataFuture /\ chan = "open"
  /\ fsend = [pc |-> "idle", ret |-> NoneVal]
  /\ fhist = <<>>

\* history of a call: what it returned, whether the future was ready, where
\* fetch_send was and whether the response was in the table when it was made
FetchCall(cmd, ret) ==
  [cmd |-> cmd, ret |-> ret, arrived |-> fut.state = "ready", send |-> fsend.pc,
   had_response |-> "ReqwestResponse" \in ftable]

BadResourceId == [kind |-> "BadResourceId"]

\* fetch_cancel that closes every resource of the request
CancelClosesAll(table) == {}

\* fetch_cancel: resources_table.take::<AbortSender>(req.abort_tx_rid)
CancelTakesSender(table) == table \ {"AbortSender"}

\* AbortSender::abort: let _ = self.0.send(()) -- the value is stored in the
\* channel unless the receiver was dropped
abort(c) == IF c = "open" THEN "sent" ELSE c

\* the fetch_cancel command; Arc::into_inner gives the sender, the table
\* having held the only reference
FetchCancel ==
  /\ Len(fhist) < MaxFetchCalls
  /\ IF "FetchRequest" \notin ftable \/ "AbortSender" \notin ftable
       THEN /\ fhist' = Append(fhist, FetchCall("fetch_cancel", Err(BadResourceId)))
            /\ UNCHANGED <<ftable, chan>>
       ELSE /\ ftable' = CancelTakesSender(ftable)
            /\ chan' = abort(chan)
            /\ fhist' = Append(fhist, FetchCall("fetch_cancel", Ok(TRUE)))
  /\ UNCHANGED <<host, updater, mt, checkVars, parseVars, cmdVars, instVars, escVars, fut, fsend>>

\* fetch_send up to its select!: get the request, take the receiver
FetchSendBegin ==
  /\ fsend.pc = "idle"
  /\ IF "FetchRequest" \notin ftable \/ "AbortRecveiver" \notin ftable
       THEN /\ fsend' = [pc |-> "returned", ret |-> SomeVal(Err(BadResourceId))]
            /\ UNCHANGED ftable
       ELSE /\ fsend' = [pc |-> "select", ret |-> NoneVal]
            /\ ftable' = ftable \ {"AbortRecveiver"}
  /\ UNCHANGED <<host, updater, mt, checkVars, parseVars, cmdVars, instVars, escVars, fut, chan, fhist>>

\* the branch res = fut.as_mut() of the select!: res? and the rest of
\* fetch_send; the receiver is dropped at the return
SelectResponse ==
  /\ fut.state = "ready"
  /\ fut' = [fut EXCEPT !.state = "taken"]
  /\ chan' = "closed"
  /\ IF fut.outcome = "response"
       THEN /\ ftable' = ftable \cup {"ReqwestResponse"}
            /\ fsend' = [pc |-> "returned", ret |-> SomeVal(Ok("FetchResponse"))]
       ELSE /\ fsend' = [pc |-> "returned", ret |-> SomeVal(Err([kind |-> "Network"]))]
            /\ UNCHANGED ftable

\* the branch _ = abort_rx.0 of the select!: resources_table.close(rid)?
\* and return Err(Error::RequestCanceled); the future is dropped with the
\* request
SelectAbort ==
  /\ chan = "sent"
  /\ chan' = "closed"
  /\ IF "FetchRequest" \in ftable
       THEN /\ ftable' = ftable \ {"FetchRequest"}
            /\ fut' = [fut EXCEPT !.state = "dropped"]
            /\ fsend' = [pc |-> "returned", ret |-> SomeVal(Err([kind |-> "RequestCanceled"]))]
       ELSE /\ fsend' = [pc |-> "returned", ret |-> SomeVal(Err(BadResourceId))]
            /\ UNCHANGED <<ftable, fut>>

\* no branch of the select! is ready: the first poll of the future of an
\* http request sends the request
SelectPending ==
  /\ fut.state = "unpolled" /\ chan # "sent"
  /\ fut' = [fut EXCEPT !.state = "pending"]
  /\ UNCHANGED <<ftable, chan, fsend>>

\* a poll of the select! of fetch_send: tokio::select! starts at a branch
\* chosen at random, so either branch can be taken when both are ready
FetchSendPoll ==
  /\ fsend.pc = "select"
  /\ SelectResponse \/ SelectAbort \/ SelectPending
  /\ UNCHANGED <<host, updater, mt, checkVars, parseVars, cmdVars, instVars, escVars, fhist>>

\* the response or the error of the request arrives: the future becomes
\* ready and wakes fetch_send
ResponseArrives ==
  /\ fut.state = "pending"
  /\ fut' = [fut EXCEPT !.state = "ready"]
  /\ UNCHANGED <<host, updater, mt, checkVars, parseVars, cmdVars, instVars, escVars,
                 ftable, chan, fsend, fhist>>

\* the fetch_read_body command: resources_table.take::<ReqwestResponse>(rid)?
FetchReadBody ==
  /\ Len(fhist) < MaxFetchCalls
  /\ IF "ReqwestResponse" \in ftable
       THEN /\ ftable' = ftable \ {"ReqwestResponse"}
            /\ fhist' = Append(fhist, FetchCall("fetch_read_body", Ok(TRUE)))
       ELSE /\ fhist' = Append(fhist, FetchCall("fetch_read_body", Err(BadResourceId)))
            /\ UNCHANGED ftable
  /\ UNCHANGED <<host, updater, mt, checkVars, parseVars, cmdVars, instVars, escVars, fut, chan, fsend>>

(* ----------------------- argument escaping ----------------------------- *)

\* arguments are sequences of characters; the escapers tell apart the
\* quotation mark, the space, the tab, the hyphen, the equals sign, the
\* backslash and the slash, and a run of other characters is written as
\* one element ("arg")
MaxArgLen == 3

QUOTE == "\""

BACKSLASH == "\\"

TAB == "\t"

EscChars == {QUOTE, " ", "-", "=", BACKSLASH, "/", "a"}

Contains(text, c) == \E k \in 1..Len(text) : text[k] = c

\* n times the character c
Repeat(c, n) == [k \in 1..n |-> c]

\* arg with its quotation marks left as they are
MsiQuotesKept(arg) == arg

\* arg.replace('"', r#""""""#): every quotation mark becomes four
RECURSIVE MsiQuotesReplaced(_)
MsiQuotesReplaced(arg) ==
  IF arg = <<>> THEN <<>>
  ELSE (IF Head(arg) = QUOTE THEN Repeat(QUOTE, 4) ELSE <<Head(arg)>>)
         \o MsiQuotesReplaced(Tail(arg))

\* arg between two single quotation marks
MsiWrappedOnce(arg) == <<QUOTE>> \o arg \o <<QUOTE>>

\* format!("\"\"{arg}\"\"")
MsiWrapped(arg) == Repeat(QUOTE, 2) \o arg \o Repeat(QUOTE, 2)

\* str::split_once('='): the position of the first equals sign, 0 if none
FirstEquals(arg) ==
  IF Contains(arg, "=")
    THEN CHOOSE k \in 1..Len(arg) : arg[k] = "=" /\ \A j \in 1..(k - 1) : arg[j] # "="
    ELSE 0

\* escape_msi_property_arg
escape_msi_property_arg(arg) ==
  IF arg = <<>> THEN Repeat(QUOTE, 4)
  ELSE IF ~Contains(arg, " ") /\ ~Contains(arg, QUOTE) THEN arg
  ELSE LET replaced == IF Contains(arg, QUOTE) THEN MsiQuotesReplaced(arg) ELSE arg
           eq == FirstEquals(replaced)
       IN IF Head(replaced) = "-" /\ eq > 0
            THEN SubSeq(replaced, 1, eq - 1) \o <<"=">>
                   \o MsiWrapped(SubSeq(replaced, eq + 1, Len(replaced)))
            ELSE MsiWrapped(replaced)

\* the ending of the quoted argument: n backslashes to total 2n before the
\* closing quotation mark
NsisClosed(backslashes) == Repeat(BACKSLASH, backslashes) \o <<QUOTE>>

\* the for loop of escape_nsis_current_exe_arg from character k on, and
\* what follows it
RECURSIVE NsisLoop(_, _, _, _, _)
NsisLoop(arg, k, cmd, backslashes, quote) ==
  IF k > Len(arg)
    THEN IF quote THEN cmd \o NsisClosed(backslashes) ELSE cmd
  ELSE IF arg[k] = BACKSLASH
    THEN NsisLoop(arg, k + 1, Append(cmd, arg[k]), backslashes + 1, quote)
  ELSE IF arg[k] = QUOTE
    THEN NsisLoop(arg, k + 1, Append(cmd \o Repeat(BACKSLASH, backslashes + 1), arg[k]), 0, quote)
  ELSE NsisLoop(arg, k + 1, Append(cmd, arg[k]), 0, quote)

\* escape_nsis_current_exe_arg
escape_nsis_current_exe_arg(arg) ==
  LET quote == Contains(arg, " ") \/ Contains(arg, TAB) \/ Contains(arg, "/") \/ arg = <<>>
  IN NsisLoop(arg, 1, IF quote THEN <<QUOTE>> ELSE <<>>, 0, quote)

\* the arguments of tests::it_escapes_correctly_for_msi and _for_nsis
DocumentedArgs ==
  { <<"something">>,
    <<"-", "-", "flag">>,
    <<"-", "-", "empty", "=">>,
    <<"-", "-", "arg", "=", "value">>,
    <<"some", " ", "space">>,
    <<"-", "-", "arg", " ", "value">>,
    <<"-", "-", "arg", "=", "unwrapped", " ", "space">>,
    <<"-", "-", "arg", "=", QUOTE, "wrapped", QUOTE>>,
    <<"-", "-", "arg", "=", QUOTE, "wrapped", " ", "space", QUOTE>>,
    <<"-", "-", "arg", "=", "midword", QUOTE, "wrapped", " ", "space", QUOTE>>,
    <<>> }

\* every argument of at most MaxArgLen characters
RECURSIVE ArgsOfLen(_)
ArgsOfLen(n) ==
  IF n = 0 THEN {<<>>}
  ELSE { Append(a, c) : a \in ArgsOfLen(n - 1), c \in EscChars }

EscapeArgs == DocumentedArgs \cup UNION { ArgsOfLen(n) : n \in 0..MaxArgLen }

EscapeMsi ==
  /\ esc_msi = NoneVal
  /\ esc_msi' = SomeVal(escape_msi_property_arg(esc_arg))
  /\ UNCHANGED <<host, updater, mt, checkVars, parseVars, cmdVars, instVars, fetchVars,
                 esc_arg, esc_nsis>>

EscapeNsis ==
  /\ esc_nsis = NoneVal
  /\ esc_nsis' = SomeVal(escape_nsis_current_exe_arg(esc_arg))
  /\ UNCHANGED <<host, updater, mt, checkVars, parseVars, cmdVars, instVars, fetchVars,
                 esc_arg, esc_msi>>

EscapeIdle == esc_arg = <<>> /\ esc_msi = NoneVal /\ esc_nsis = NoneVal

(* --------------------------- specifications ---------------------------- *)

CmdHosts ==
  { [os |-> SomeVal("linux"), arch |-> "x86_64", installer |-> NoneVal],
    [os |-> SomeVal("windows"), arch |-> "x86_64", installer |-> SomeVal("nsis")] }

\* the updater the plugin is configured with
CmdUpdaters ==
  [endpoints : { [i \in 1..n |-> i] : n \in 0..1 },
   current_version : {AVersion},
   target : {NoneVal},
   version_comparator : {NoneVal},
   pubkey : {KeyText("trusted"), MalformedKey},
   timeout : {NoneVal},
   proxy : {NoneVal},
   headers : {<<>>}]

\* the configurations the commands run under: a key that does not decode
\* and an empty endpoint list are explored on one host only
CmdConfigs ==
  { c \in CmdHosts \X CmdUpdaters :
      (c[2].pubkey = MalformedKey \/ Len(c[2].endpoints) = 0)
        => c[1].os = SomeVal("linux") }

Init ==
  /\ \E c \in CmdConfigs : host = c[1] /\ updater = c[2]
  /\ CheckIdle /\ ParseIdle /\ CmdIdle /\ InstallIdle /\ FetchIdle /\ EscapeIdle /\ HandoffIdle

Next ==
  \/ CmdCheck
  \/ DownloadBegin
  \/ DownloadChunk
  \/ DownloadStreamError
  \/ DownloadFinish
  \/ Install

Spec == Init /\ [][Next]_vars


InitParse ==
  /\ host = IdleHost /\ updater = IdleUpdater /\ CheckIdle /\ CmdIdle /\ InstallIdle
  /\ FetchIdle /\ EscapeIdle /\ HandoffIdle
  /\ doc \in ParseDocs /\ parsed = NoneVal

NextParse == Deserialize

SpecParse == InitParse /\ [][NextParse]_vars

InitCheck ==
  /\ host \in Hosts /\ updater \in Updaters /\ CheckIdle
  /\ ParseIdle /\ CmdIdle /\ InstallIdle /\ FetchIdle /\ EscapeIdle /\ HandoffIdle

NextCheck == CheckBegin \/ CheckEndpoint \/ CheckReturn

SpecCheck == InitCheck /\ [][NextCheck]_vars

InitInstall ==
  /\ host \in InstHosts /\ updater = IdleUpdater
  /\ CheckIdle /\ ParseIdle /\ CmdIdle /\ FetchIdle /\ EscapeIdle /\ HandoffIdle
  /\ inst \in InstallsOn(host) /\ disk = OriginalDisk
  /\ steps = <<>> /\ iret = NoneVal

NextInstall ==
  \/ InstallWindows
  \/ InstallAppImage
  \/ InstallPackage
  \/ InstallMacos

SpecInstall == InitInstall /\ [][NextInstall]_vars

InitFetch ==
  /\ host = IdleHost /\ updater = IdleUpdater
  /\ CheckIdle /\ ParseIdle /\ CmdIdle /\ InstallIdle /\ EscapeIdle /\ HandoffIdle
  /\ FetchMade

NextFetch ==
  \/ FetchCancel
  \/ FetchSendBegin
  \/ FetchSendPoll
  \/ ResponseArrives
  \/ FetchReadBody

SpecFetch == InitFetch /\ [][NextFetch]_vars

InitEscape ==
  /\ host = IdleHost /\ updater = IdleUpdater
  /\ CheckIdle /\ ParseIdle /\ CmdIdle /\ InstallIdle /\ FetchIdle /\ HandoffIdle
  /\ esc_arg \in EscapeArgs /\ esc_msi = NoneVal /\ esc_nsis = NoneVal

NextEscape ==
  \/ EscapeMsi
  \/ EscapeNsis

SpecEscape == InitEscape /\ [][NextEscape]_vars


InitDowngrade ==
  /\ host = IdleHost
  /\ updater \in { [IdleUpdater EXCEPT !.version_comparator = c] : c \in PluginComparators }
  /\ CheckIdle /\ ParseIdle /\ CmdIdle /\ InstallIdle /\ FetchIdle /\ EscapeIdle /\ HandoffIdle

NextDowngrade == CmdCheckVersions

SpecDowngrade == InitDowngrade /\ [][NextDowngrade]_vars

InitHandoff ==
  /\ host = [os |-> SomeVal("darwin"), arch |-> "x86_64", installer |-> SomeVal("app")]
  /\ updater = IdleUpdater
  /\ CheckIdle /\ ParseIdle /\ CmdIdle /\ FetchIdle /\ EscapeIdle /\ HandoffIdle
  /\ inst \in MacInstalls /\ disk = OriginalDisk
  /\ steps = <<>> /\ iret = NoneVal

NextHandoff ==
  \/ MacBegin
  \/ MainCompile
  \/ MainExecute
  \/ MacRecv

SpecHandoff == InitHandoff /\ [][NextHandoff]_vars

\* the sessions a check command returns on a release signed by either key
CheckedSessions ==
  { check(build(IdleUpdater).v, IdleHost,
          <<[kind |-> "http", status |-> 200,
             body |-> Manifest(PlainVersion(NewerVersion), FAbsent, FAbsent, FAbsent, FAbsent,
                               FOk(<<"https://cdn/dynamic">>), FOk(sig))]>>).v.v :
      sig \in {SignatureText("trusted", SignedArtifact),
               SignatureText("attacker", SignedArtifact)} }

\* a check command has returned a session with handle 1
InitDownload ==
  /\ host = IdleHost /\ updater = IdleUpdater
  /\ CheckIdle /\ ParseIdle /\ InstallIdle /\ FetchIdle /\ EscapeIdle /\ HandoffIdle
  /\ \E update \in CheckedSessions : resources = add(<<>>, 1, UpdateResource(update))
  /\ next_rid = 2 /\ dl = NoDownload
  /\ last = NoCommand /\ exited = FALSE /\ consumed = <<>> /\ origin = <<>>

NextDownload ==
  \/ DownloadBegin
  \/ DownloadChunkSized
  \/ DownloadStreamErrorKept
  \/ DownloadFinishKept

SpecDownload == InitDownload /\ [][NextDownload]_vars

\* two check commands have returned sessions on releases with different
\* signatures, with handles 1 and 2
InitSessions ==
  /\ host = IdleHost /\ updater = IdleUpdater
  /\ CheckIdle /\ ParseIdle /\ InstallIdle /\ FetchIdle /\ EscapeIdle /\ HandoffIdle
  /\ \E first \in CheckedSessions :
       \E second \in CheckedSessions \ {first} :
         resources = add(add(<<>>, 1, UpdateResource(first)), 2, UpdateResource(second))
  /\ next_rid = 3 /\ dl = NoDownload
  /\ last = NoCommand /\ exited = FALSE /\ consumed = <<>> /\ origin = <<>>

NextSessions ==
  \/ DownloadBegin
  \/ DownloadChunk
  \/ DownloadStreamError
  \/ DownloadFinishTraced
  \/ InstallTraced

SpecSessions == InitSessions /\ [][NextSessions]_vars

(* ----------------------- properties of the check ----------------------- *)

\* what an endpoint answered, read off the response alone
AnsweredNoContent(r) == r.kind = "http" /\ r.status = 204

AnsweredBadStatus(r) == r.kind = "http" /\ (r.status < 200 \/ r.status > 299)

AnsweredBody(r) == r.kind = "http" /\ r.status \in 200..299 /\ r.status # 204

AnsweredRelease(r) ==
  AnsweredBody(r) /\ r.body.kind = "object" /\ DeserializeRemoteRelease(r.body).ok

AnsweredUnparseable(r) == AnsweredBody(r) /\ ~AnsweredRelease(r)

NetworkFailure(r) == r.kind = "neterr"

Returned == pc = "done" /\ IsSome(result)

LastAnswer == answers[Len(answers)]

ReleaseOf(r) == DeserializeRemoteRelease(r.body).release

\* C2: the endpoints are requested in list order, each at most once, and no
\* endpoint is requested after the first that answers 204 or a release
C2_EndpointsInOrder ==
  /\ Len(contacted) = Len(answers)
  /\ Len(contacted) <= Len(updater.endpoints)
  /\ \A i \in 1..Len(contacted) : contacted[i] = i
  /\ \A i \in 1..Len(answers) :
       (AnsweredNoContent(answers[i]) \/ AnsweredRelease(answers[i]))
         => i = Len(answers) /\ pc = "done"

C2_Witness ==
  /\ Returned /\ Len(updater.endpoints) = 2 /\ contacted = <<1, 2>>
  /\ NetworkFailure(answers[1]) /\ AnsweredRelease(answers[2])

\* C3: a 204 answer makes check return Ok(None), whatever the endpoints
\* before it answered
C3_NoContentIsNoUpdate ==
  (\E i \in 1..Len(answers) : AnsweredNoContent(answers[i]))
    => Returned /\ result.v = Ok(NoneVal)

C3_Witness ==
  /\ Returned /\ Len(answers) = 2
  /\ NetworkFailure(answers[1]) \/ AnsweredUnparseable(answers[1])
  /\ AnsweredNoContent(answers[2])
  /\ result.v = Ok(NoneVal)

\* C4: after a 2xx body that does not parse as a release, whether it is not
\* JSON or JSON of the wrong shape, check records the error and goes on to
\* the next endpoint
C4_ParseFailureContinues ==
  \A i \in 1..Len(answers) :
    AnsweredUnparseable(answers[i]) /\ i < Len(updater.endpoints)
      => /\ pc = "loop" \/ Len(answers) > i
         /\ i = Len(answers) => IsSome(ck.last_error) /\ ck.last_error.v.ep = i

\* C5: a status that is not a success does not end the check, and when every
\* endpoint answers with one the result is ReleaseNotFound
C5_BadStatusContinues ==
  /\ \A i \in 1..Len(answers) :
       AnsweredBadStatus(answers[i]) /\ i < Len(updater.endpoints)
         => pc = "loop" \/ Len(answers) > i
  /\ ( /\ Returned
       /\ Len(answers) = Len(updater.endpoints)
       /\ \A i \in 1..Len(answers) : AnsweredBadStatus(answers[i]) )
       => result.v = Err([kind |-> "ReleaseNotFound"])

C5_Witness ==
  /\ Returned /\ Len(answers) = 2
  /\ \A i \in 1..2 : AnsweredBadStatus(answers[i])
  /\ result.v = Err([kind |-> "ReleaseNotFound"])

\* the endpoints that produced a network or parse error
ErrorEndpoints ==
  { i \in 1..Len(answers) : NetworkFailure(answers[i]) \/ AnsweredUnparseable(answers[i]) }

LatestErrorEndpoint == CHOOSE i \in ErrorEndpoints : \A j \in ErrorEndpoints : j <= i

ErrorKindOf(r) ==
  IF NetworkFailure(r) \/ r.body.kind = "notjson" THEN "Reqwest" ELSE "Serde"

\* C6: with no release and no 204, the latest network or parse error is the
\* result if there is one; ReleaseNotFound only if there is none
C6_LatestErrorReturned ==
  /\ ( /\ Returned
       /\ \A i \in 1..Len(answers) :
            ~AnsweredNoContent(answers[i]) /\ ~AnsweredRelease(answers[i])
       /\ ErrorEndpoints # {} )
       => result.v = Err([kind |-> ErrorKindOf(answers[LatestErrorEndpoint]),
                          ep |-> LatestErrorEndpoint])
  /\ (Returned /\ result.v = Err([kind |-> "ReleaseNotFound"]))
       => ErrorEndpoints = {}

C6_Witness ==
  /\ Returned /\ Len(answers) = 2
  /\ NetworkFailure(answers[1]) /\ AnsweredBadStatus(answers[2])
  /\ result.v = Err([kind |-> "Reqwest", ep |-> 1])

\* precedence of the semantic versioning specification: a comes before b
IdPrecedes(x, y) ==
  \/ x[1] = "num" /\ y[1] = "alnum"
  \/ x[1] = y[1] /\ x[2] < y[2]

PrePrecedes(p, q) ==
  \/ p # <<>> /\ q = <<>>
  \/ /\ p # <<>> /\ q # <<>>
     /\ \/ \E i \in 1..Len(p) :
             /\ i <= Len(q)
             /\ \A j \in 1..(i - 1) : p[j] = q[j]
             /\ IdPrecedes(p[i], q[i])
        \/ /\ Len(p) < Len(q)
           /\ \A j \in 1..Len(p) : p[j] = q[j]

SemverPrecedes(a, b) ==
  \/ a.major < b.major
  \/ a.major = b.major /\ a.minor < b.minor
  \/ a.major = b.major /\ a.minor = b.minor /\ a.patch < b.patch
  \/ /\ a.major = b.major /\ a.minor = b.minor /\ a.patch = b.patch
     /\ PrePrecedes(a.pre, b.pre)

\* the keys tried for a host when no target is pinned
KeysTried ==
  IF IsSome(host.installer)
    THEN << <<host.os.v, "-", host.arch, "-", host.installer.v>>,
            <<host.os.v, "-", host.arch>> >>
    ELSE << <<host.os.v, "-", host.arch>> >>

\* the platform entry of a release resolves for this updater
Resolves(rel) ==
  \/ rel.data.shape = "Dynamic"
  \/ /\ rel.data.shape = "Static"
     /\ IF IsSome(updater.target)
          THEN updater.target.v \in DOMAIN rel.data.platforms
          ELSE \E i \in 1..Len(KeysTried) : KeysTried[i] \in DOMAIN rel.data.platforms

ReturnedForRelease == Returned /\ Len(answers) > 0 /\ AnsweredRelease(LastAnswer)

DecisionNegative(rel) ==
  IF updater.version_comparator = NoneVal
    THEN ~SemverPrecedes(updater.current_version, rel.version)
    ELSE updater.version_comparator.v = "neq" /\ rel.version = updater.current_version

\* C8: when the update decision is negative, check returns Ok(None) even if
\* the manifest has no entry for the target keys
C8_NoResolutionWithoutUpdate ==
  (ReturnedForRelease /\ DecisionNegative(ReleaseOf(LastAnswer)))
    => result.v = Ok(NoneVal)

\* the reference for target resolution on a static manifest
FirstPresent(keys, platforms) ==
  CHOOSE i \in 1..Len(keys) :
    /\ keys[i] \in DOMAIN platforms
    /\ \A j \in 1..(i - 1) : keys[j] \notin DOMAIN platforms

ResolveReference(rel) ==
  IF IsSome(updater.target)
    THEN IF updater.target.v \in DOMAIN rel.data.platforms
           THEN Ok([url |-> rel.data.platforms[updater.target.v].url,
                    signature |-> rel.data.platforms[updater.target.v].signature])
           ELSE Err([kind |-> "TargetNotFound", target |-> updater.target.v])
    ELSE IF \E i \in 1..Len(KeysTried) : KeysTried[i] \in DOMAIN rel.data.platforms
           THEN Ok([url |-> rel.data.platforms[
                              KeysTried[FirstPresent(KeysTried, rel.data.platforms)]].url,
                    signature |-> rel.data.platforms[
                              KeysTried[FirstPresent(KeysTried, rel.data.platforms)]].signature])
           ELSE Err([kind |-> "TargetsNotFound", targets |-> KeysTried])

\* C9: on a static manifest get_urls equals the reference, and check hands
\* on what it resolved: its error, or its url and signature in the session
C9_TargetResolution ==
  (ReturnedForRelease /\ ReleaseOf(LastAnswer).data.shape = "Static")
    => LET rel == ReleaseOf(LastAnswer)
           ref == ResolveReference(rel)
       IN /\ get_urls(updater, host, rel) = ref
          /\ ~IsOk(ref) => result.v = ref
          /\ IsOk(ref) => IsOk(result.v)
          /\ (IsOk(result.v) /\ IsSome(result.v.v))
               => /\ result.v.v.v.download_url = ref.v.url
                  /\ result.v.v.v.signature = ref.v.signature

C9_Witness ==
  /\ ReturnedForRelease /\ ReleaseOf(LastAnswer).data.shape = "Static"
  /\ updater.target = NoneVal /\ IsSome(host.installer)
  /\ {K3, K2} \subseteq DOMAIN ReleaseOf(LastAnswer).data.platforms
  /\ IsOk(result.v) /\ IsSome(result.v.v)
  /\ result.v.v.v.download_url = UrlOf(K3)

\* check returned after an endpoint answered with a valid release
ReturnedOnRelease == Returned /\ Len(answers) > 0 /\ AnsweredRelease(LastAnswer)

\* C28: when an endpoint answers with a valid release, check returns what it
\* returns for that release alone, and never an error recorded for an
\* endpoint
C28_ReleaseDiscardsEarlierErrors ==
  ReturnedOnRelease =>
    /\ result.v = AfterLoop(updater, host,
                            OnRelease(CheckLocals, LastAnswer.body, ReleaseOf(LastAnswer)))
    /\ ~IsOk(result.v) => "ep" \notin DOMAIN result.v.err

C28_Witness ==
  /\ ReturnedOnRelease /\ Len(answers) = 2
  /\ ErrorEndpoints = {1}
  /\ IsOk(result.v) /\ IsSome(result.v.v)

(* ------------------- properties of the deserializer ------------------- *)

\* C10: a parsed release has exactly one shape, Static when a platforms map
\* is present and otherwise Dynamic with url and signature both present; no
\* platforms map and a missing url or signature is a parse error
C10_ExactlyOneShape ==
  (IsSome(parsed) /\ doc.kind = "object")
    => /\ parsed.v.ok =>
            \/ /\ doc.o.platforms.t = "ok"
               /\ parsed.v.release.data.shape = "Static"
               /\ DOMAIN parsed.v.release.data = {"shape", "platforms"}
               /\ DOMAIN parsed.v.release.data.platforms = DOMAIN doc.o.platforms.v
            \/ /\ doc.o.platforms.t # "ok"
               /\ parsed.v.release.data.shape = "Dynamic"
               /\ DOMAIN parsed.v.release.data = {"shape", "url", "signature"}
               /\ doc.o.url.t = "ok" /\ doc.o.signature.t = "ok"
               /\ parsed.v.release.data.url = doc.o.url.v
               /\ parsed.v.release.data.signature = doc.o.signature.v
       /\ ( /\ doc.o.platforms.t \in {"absent", "null"}
            /\ doc.o.url.t \in {"absent", "null"} \/ doc.o.signature.t \in {"absent", "null"} )
            => ~parsed.v.ok

C10_Witness ==
  /\ IsSome(parsed) /\ doc.kind = "object"
  /\ doc.o.platforms.t = "null" /\ doc.o.url.t = "ok" /\ doc.o.signature.t = "absent"
  /\ doc.o.version.t = "ok" /\ doc.o.name.t = "absent"
  /\ ~parsed.v.ok

(* --------------------- properties of the commands --------------------- *)

\* minisign: sig is a signature of exactly these bytes under the key pair
\* of the public key
Genuine(bytes, sig, key) ==
  key.wf /\ sig.wf /\ sig.signer = key.signer /\ sig.payload = bytes

\* the signatures of the sessions in the resource table
SessionSignatures ==
  { resources[r].update.signature :
      r \in { q \in DOMAIN resources : resources[q].type = "Update" } }

VerifiedForSomeSession(bytes) ==
  \E sig \in SessionSignatures : Genuine(bytes, sig, updater.pubkey)

\* C1: an install strategy only ever runs on bytes that verify against the
\* signature of the session they were downloaded through and the configured
\* public key; a download whose verification fails returns an error, and
\* its bytes are neither stored as a resource nor installed
C1_OnlyVerifiedBytesInstalled ==
  /\ IsSome(last.installed) => VerifiedForSomeSession(last.installed.v.bytes)
  /\ (IsSome(last.installed) /\ last.cmd = "download_and_install")
       => Genuine(last.installed.v.bytes, last.installed.v.update.signature, updater.pubkey)
  /\ \A r \in DOMAIN resources :
       resources[r].type = "DownloadedBytes" => VerifiedForSomeSession(resources[r].bytes)
  /\ ( /\ IsSome(last.verified)
       /\ ~Genuine(last.verified.v.bytes, last.verified.v.signature, updater.pubkey) )
       => ~IsOk(last.ret.v) /\ last.installed = NoneVal
  /\ dl.active => dl.update.pubkey = updater.pubkey

C1_Witness ==
  /\ last.cmd = "install" /\ IsSome(last.installed)
  /\ last.installed.v.bytes = SignedArtifact
  /\ IsOk(last.ret.v)

(* ------------------------- Update::download --------------------------- *)

Downloads == {"download", "download_and_install"}

\* the bytes appended by the buffer.extend entries of a call log, in order
RECURSIVE ExtendedBytes(_)
ExtendedBytes(calls) ==
  IF calls = <<>> THEN <<>>
  ELSE (IF Head(calls)[1] = "extend" THEN Head(calls)[2] ELSE <<>>)
         \o ExtendedBytes(Tail(calls))

\* the log of a download in flight: for the i-th chunk received, on_chunk
\* and then the append of that same chunk, and nothing else
ChunkCallsInOrder(d) ==
  /\ Len(d.calls) = 2 * d.chunks
  /\ \A i \in 1..d.chunks :
       /\ d.calls[2 * i - 1][1] = "on_chunk"
       /\ d.calls[2 * i][1] = "extend"
       /\ d.calls[2 * i - 1][2] = d.calls[2 * i][2]
  /\ ExtendedBytes(d.calls) = d.buffer

\* the download behind the last return went through the end of its stream
StreamEnded == "calls" \in DOMAIN last /\ IsSome(last.verified)

StreamFailed == "calls" \in DOMAIN last /\ ~IsSome(last.verified)

\* C11: while a download is in flight, on_chunk has been called once per
\* received chunk, in stream order, each time before that chunk was appended
\* to the buffer, and neither on_finish nor the verification has run; when
\* the stream has ended, on_finish is called exactly once, before the
\* signature verification, and bytes are returned only after both; when the
\* stream fails part-way, on_finish is not called and an error is returned
C11_CallbackOrder ==
  /\ dl.active => ChunkCallsInOrder(dl)
  /\ StreamEnded =>
       /\ Len(last.calls) = 2
       /\ last.calls[1] = <<"on_download_finish">>
       /\ last.calls[2] = <<"verify_signature">>
  /\ StreamFailed => last.calls = <<>> /\ ~IsOk(last.ret.v)
  /\ (last.cmd \in Downloads /\ IsOk(last.ret.v)) => StreamEnded

C11_Witness ==
  /\ last.cmd = "download" /\ IsOk(last.ret.v)
  /\ StreamEnded /\ Len(last.verified.v.bytes) = 2

\* the last return was made on the answer to the download request
ReturnedOnResponse == "response" \in DOMAIN last

\* the text occurs in the message of the error
MessageCarries(err, text) ==
  "message" \in DOMAIN err /\ \E i \in 1..Len(err.message) : err.message[i] = text

\* C12: when the download URL answers with a non-success status, the
\* download command fails with a Network error that carries the status code
\* and the text of the response body, and nothing was called, verified,
\* installed or returned as bytes
C12_BadStatusCarriesBody ==
  (ReturnedOnResponse /\ last.response.kind = "http" /\ ~is_success(last.response.status)) =>
    /\ ~IsOk(last.ret.v)
    /\ last.ret.v.err.kind = "Network"
    /\ MessageCarries(last.ret.v.err, ToString(last.response.status))
    /\ MessageCarries(last.ret.v.err, last.response.text)
    /\ "calls" \notin DOMAIN last
    /\ last.verified = NoneVal /\ last.installed = NoneVal

(* ------------------------- session configuration ---------------------- *)

\* the request settings of an Updater or of an Update
RequestSettings(x) == [timeout |-> x.timeout, proxy |-> x.proxy, headers |-> x.headers]

\* the last command was a check that returned a session
CheckReturnedSession == last.cmd = "check" /\ "updater" \in DOMAIN last

\* C13: the session returned by check has the timeout, proxy and headers of
\* the Updater that made the check, and a download on a session without
\* per-call overrides makes its request with the settings of that session
C13_SessionCarriesSettings ==
  /\ CheckReturnedSession =>
       RequestSettings(resources[last.ret.v.v.v].update) = RequestSettings(last.updater)
  /\ (dl.active /\ dl.args.headers = NoneVal /\ dl.args.timeout = NoneVal) =>
       RequestSettings(dl.update) = RequestSettings(resources[dl.rid].update)

(* --------------------------- Update::install --------------------------- *)

InstallEnded == IsSome(iret)

\* the positions of a step in the steps taken
PositionsOf(step) == { k \in 1..Len(steps) : steps[k] = step }

\* the steps that launch the installer, move or replace the app at the
\* install path, or run the package manager
DestructiveSteps ==
  {"ShellExecuteW", "rename_to_backup", "privileged_replace", "pkexec", "sudo -S", "sudo"}

DestructivePositions == { k \in 1..Len(steps) : steps[k] \in DestructiveSteps }

\* C14: an install that reaches a destructive step on an update with the
\* before-exit hook set has called the hook exactly once, and before the
\* first destructive step
C14_HookBeforeDestructiveStep ==
  (InstallEnded /\ inst.hook /\ DestructivePositions # {}) =>
    /\ Cardinality(PositionsOf("on_before_exit")) = 1
    /\ \A h \in PositionsOf("on_before_exit"), k \in DestructivePositions : h < k

\* the running AppImage was renamed to its backup
BackedUp ==
  /\ PositionsOf("rename_to_backup") # {}
  /\ inst.fail # "rename_to_backup"

\* a step of the AppImage install failed after the backup was made: the
\* unpacking of the archive entry, the write of the new file or the setting
\* of its permissions failed, or the archive holds no .AppImage entry
FailedAfterBackup ==
  /\ BackedUp
  /\ \/ /\ inst.fail \in {"unpack", "write", "set_permissions"}
        /\ PositionsOf(inst.fail) # {}
     \/ inst.zip /\ inst.bytes.format = "gz" /\ inst.bytes.entry # "AppImage"

MacFailedAfterBackup ==
  \/ BackedUp /\ inst.fail = "rename_new" /\ PositionsOf("rename_new") # {}
  \/ PositionsOf("privileged_replace") # {} /\ inst.script # "ok"

\* C16: when the macOS install fails to move the new bundle into place
\* after the current bundle was moved to the backup directory, or when the
\* privileged removal-and-move fails, an error is returned and the original
\* bundle is at the install path
C16_MacosRollback ==
  (host.os = SomeVal("darwin") /\ InstallEnded /\ MacFailedAfterBackup) =>
    /\ ~IsOk(iret.v)
    /\ disk.target = "original"

\* the steps that examine the bytes to determine the format of the payload
FormatSteps == {"is_zip", "is_exe", "is_msi", "is_gz", "is_deb", "is_rpm", "decode"}

FormatPositions == { k \in 1..Len(steps) : steps[k] \in FormatSteps }

\* the steps that changed the install target: the app at the install path
\* was moved away, overwritten or replaced, or an installer or the package
\* manager was run on it
MutatingPositions ==
  { k \in DestructivePositions \cup PositionsOf("write") \cup PositionsOf("rename_new") :
      ~(steps[k] = "rename_to_backup"
          /\ inst.fail \in {"rename_to_backup", "rename_to_backup_denied"}) }

\* C17: an install that changed the install target has examined the bytes
\* for their format, and every such examination came before the first
\* change; bytes of no recognised format make install return an error with
\* the original app at the install path
C17_FormatBeforeMutation ==
  InstallEnded =>
    /\ \A m \in MutatingPositions :
         /\ \E f \in FormatPositions : f < m
         /\ \A f \in FormatPositions : f < m
    /\ inst.bytes.format = "other" =>
         /\ ~IsOk(iret.v)
         /\ disk.target = "original"

\* the install of a DEB or RPM build was given bytes that are not a package
\* of its kind
PackageSniffFailed ==
  /\ IsPackageHost(host) /\ InstallEnded
  /\ inst.bytes.format # host.installer.v

\* the steps that make a temp dir, write the package file or run an
\* elevation helper
TempAndElevationSteps ==
  {"tempdir", "write_pkg", "pkexec", "zenity", "kdialog", "sudo -S", "sudo"}

\* C18: a DEB or RPM install of bytes that do not pass the format sniff of
\* its package kind returns InvalidUpdaterFormat and has made no temp dir,
\* written no package file and run no elevation helper
C18_PackageSniffFailsFast ==
  PackageSniffFailed =>
    /\ iret = SomeVal(Err([kind |-> "InvalidUpdaterFormat"]))
    /\ \A k \in 1..Len(steps) : steps[k] \notin TempAndElevationSteps

C18_Witness ==
  /\ PackageSniffFailed
  /\ host.installer = SomeVal("deb") /\ inst.bytes.format = "rpm"
  /\ steps = <<"is_deb">>

\* the elevation of a package install was started
ElevationRun == IsPackageHost(host) /\ InstallEnded /\ PositionsOf("pkexec") # {}

\* the place of a process in the order of try_install_with_privileges
ElevationRank(step) ==
  CASE step = "pkexec" -> 1
    [] step = "zenity" -> 2
    [] step = "kdialog" -> 3
    [] step = "sudo -S" -> 4
    [] step = "sudo" -> 5
    [] OTHER -> 0

ElevationPositions == { k \in 1..Len(steps) : ElevationRank(steps[k]) > 0 }

\* the attempts of the three methods: pkexec, sudo fed with the password
\* of the GUI prompt, terminal sudo
MethodPositions == { k \in 1..Len(steps) : steps[k] \in {"pkexec", "sudo -S", "sudo"} }

\* the process run by the method attempted at position k exited successfully
ExitedOk(k) ==
  \/ steps[k] = "pkexec" /\ inst.procs.pkexec = "ok"
  \/ steps[k] = "sudo -S" /\ inst.procs.sudo_stdin = "ok"
  \/ steps[k] = "sudo" /\ inst.procs.sudo = "ok"

\* pkexec, zenity, kdialog, sudo -S, sudo run in this order, each at most once
ElevationInOrder ==
  ElevationRun =>
    \A j, k \in ElevationPositions :
      j < k => ElevationRank(steps[j]) < ElevationRank(steps[k])

\* nothing is run after a method that exited successfully
NoMethodAfterSuccess ==
  ElevationRun =>
    \A j \in MethodPositions : ExitedOk(j) => \A k \in ElevationPositions : k <= j

\* install returns Ok exactly when an attempted method exited successfully
SucceedsIffMethodSucceeds ==
  ElevationRun => (IsOk(iret.v) <=> \E j \in MethodPositions : ExitedOk(j))

\* C19: the elevation processes run in the order pkexec, zenity, kdialog,
\* sudo -S, sudo; nothing runs after a method that exited successfully;
\* install succeeds exactly when an attempted method exited successfully;
\* and when no method succeeded install returns PackageInstallFailed
C19_ElevationOrderAndResult ==
  /\ ElevationInOrder
  /\ NoMethodAfterSuccess
  /\ SucceedsIffMethodSucceeds
  /\ (ElevationRun /\ ~(\E j \in MethodPositions : ExitedOk(j))) =>
       iret = SomeVal(Err([kind |-> "PackageInstallFailed"]))

(* ---------------------- lifetime of downloaded bytes ------------------ *)

\* the last command was an install that ran Update::install on the bytes
\* of a handle
InstallConsumedBytes == last.cmd = "install" /\ IsSome(last.installed)

\* C20: after an install command that ran the install has returned, with an
\* error as well as with success, its bytes handle is not in the resource
\* table any more
C20_BytesDiscardedAfterInstall ==
  (InstallConsumedBytes /\ ~exited) =>
    ~IsOk(get(resources, "DownloadedBytes", last.installed.v.bytes_rid))

\* the install commands that returned Ok, by bytes handle
SuccessfulInstalls(rid) == { k \in 1..Len(consumed) : consumed[k] = rid }

\* the last command was an install naming a bytes handle that an earlier
\* install command had installed successfully
InstallAgain ==
  /\ last.cmd = "install"
  /\ \E k \in 1..Len(consumed) :
       consumed[k] = last.bytes_rid /\ (IsOk(last.ret.v) => k < Len(consumed))

\* C21: for no bytes handle two install commands return Ok; the handle of a
\* successful install is not in the resource table afterwards; an install
\* command naming it again returns the resource error and installs nothing
C21_BytesInstalledAtMostOnce ==
  /\ \A rid \in Rids : Cardinality(SuccessfulInstalls(rid)) <= 1
  /\ \A rid \in Rids :
       SuccessfulInstalls(rid) # {} => ~IsOk(get(resources, "DownloadedBytes", rid))
  /\ InstallAgain =>
       /\ last.ret.v = Err([kind |-> "BadResourceId"])
       /\ last.installed = NoneVal

C21_Witness ==
  /\ InstallAgain
  /\ last.ret.v = Err([kind |-> "BadResourceId"])
  /\ consumed = <<last.bytes_rid>>

(* ------------------------- fetch cancellation -------------------------- *)

FetchSendReturned == fsend.pc = "returned"

\* the fetch_cancel calls that sent the abort signal before the future was
\* ready and before fetch_send returned
CancelsBeforeArrival ==
  { k \in 1..Len(fhist) :
      /\ fhist[k].cmd = "fetch_cancel" /\ IsOk(fhist[k].ret)
      /\ ~fhist[k].arrived /\ fhist[k].send # "returned" }

\* a request cancelled before fetch_send took the receiver makes fetch_send
\* return the cancelled error
CancelBeforeSendWins ==
  (FetchSendReturned /\ \E k \in CancelsBeforeArrival : fhist[k].send = "idle") =>
    fsend.ret = SomeVal(Err([kind |-> "RequestCanceled"]))

\* C22: when fetch_cancel sent the abort signal before the response had
\* arrived, be it before fetch_send started or while it was in its select!,
\* fetch_send returns the cancelled error, no response resource is made,
\* and the request is closed in the resource table
C22_CancelBeforeResponse ==
  (FetchSendReturned /\ CancelsBeforeArrival # {}) =>
    /\ fsend.ret = SomeVal(Err([kind |-> "RequestCanceled"]))
    /\ "ReqwestResponse" \notin ftable
    /\ "FetchRequest" \notin ftable

\* the fetch_cancel calls made after fetch_send had returned a response
CancelsAfterResponse ==
  { k \in 1..Len(fhist) :
      /\ fhist[k].cmd = "fetch_cancel" /\ fhist[k].send = "returned"
      /\ fsend.ret = SomeVal(Ok("FetchResponse")) }

\* the call at position k left a response that was in the table in it
ResponseKept(k) ==
  (k = Len(fhist) /\ fhist[k].had_response) => "ReqwestResponse" \in ftable

\* an earlier fetch_cancel had taken the AbortSender of the request
CancelledEarlier(k) ==
  \E j \in 1..(k - 1) : fhist[j].cmd = "fetch_cancel" /\ IsOk(fhist[j].ret)

\* C23 as stated: every fetch_cancel issued after fetch_send returned a
\* response returns Ok and leaves the response resource in the table
C23_CancelAfterResponseReturnsOk ==
  \A k \in CancelsAfterResponse : IsOk(fhist[k].ret) /\ ResponseKept(k)

\* C23: a fetch_cancel issued after fetch_send returned a response leaves
\* the response resource in the table; it returns Ok if the request was not
\* cancelled before, and the resource error if it was
C23_CancelAfterResponse ==
  \A k \in CancelsAfterResponse :
    /\ ResponseKept(k)
    /\ IF CancelledEarlier(k) THEN fhist[k].ret = Err(BadResourceId)
       ELSE fhist[k].ret = Ok(TRUE)

C23_Witness ==
  /\ Len(fhist) \in CancelsAfterResponse
  /\ fhist[Len(fhist)].ret = Ok(TRUE) /\ fhist[Len(fhist)].had_response
  /\ "ReqwestResponse" \in ftable

(* --------------------------- argument escaping ------------------------- *)

\* the expected outputs of tests::it_escapes_correctly_for_msi
DocumentedMsi(arg) ==
  LET q2 == Repeat(QUOTE, 2)
      q4 == Repeat(QUOTE, 4)
      q6 == Repeat(QUOTE, 6)
  IN CASE arg = <<"some", " ", "space">> -> q2 \o arg \o q2
       [] arg = <<"-", "-", "arg", " ", "value">> -> q2 \o arg \o q2
       [] arg = <<"-", "-", "arg", "=", "unwrapped", " ", "space">> ->
            <<"-", "-", "arg", "=">> \o q2 \o <<"unwrapped", " ", "space">> \o q2
       [] arg = <<"-", "-", "arg", "=", QUOTE, "wrapped", QUOTE>> ->
            <<"-", "-", "arg", "=">> \o q6 \o <<"wrapped">> \o q6
       [] arg = <<"-", "-", "arg", "=", QUOTE, "wrapped", " ", "space", QUOTE>> ->
            <<"-", "-", "arg", "=">> \o q6 \o <<"wrapped", " ", "space">> \o q6
       [] arg = <<"-", "-", "arg", "=", "midword", QUOTE, "wrapped", " ", "space", QUOTE>> ->
            <<"-", "-", "arg", "=">> \o q2 \o <<"midword">> \o q4
              \o <<"wrapped", " ", "space">> \o q6
       [] arg = <<>> -> q4
       [] OTHER -> arg

\* the expected outputs of tests::it_escapes_correctly_for_nsis
DocumentedNsis(arg) ==
  LET q == <<QUOTE>>
      bq == <<BACKSLASH, QUOTE>>
  IN CASE arg = <<"some", " ", "space">> -> q \o arg \o q
       [] arg = <<"-", "-", "arg", " ", "value">> -> q \o arg \o q
       [] arg = <<"-", "-", "arg", "=", "unwrapped", " ", "space">> -> q \o arg \o q
       [] arg = <<"-", "-", "arg", "=", QUOTE, "wrapped", QUOTE>> ->
            <<"-", "-", "arg", "=">> \o bq \o <<"wrapped">> \o bq
       [] arg = <<"-", "-", "arg", "=", QUOTE, "wrapped", " ", "space", QUOTE>> ->
            q \o <<"-", "-", "arg", "=">> \o bq \o <<"wrapped", " ", "space">> \o bq \o q
       [] arg = <<"-", "-", "arg", "=", "midword", QUOTE, "wrapped", " ", "space", QUOTE>> ->
            q \o <<"-", "-", "arg", "=", "midword">> \o bq
              \o <<"wrapped", " ", "space">> \o bq \o q
       [] arg = <<>> -> q \o q
       [] OTHER -> arg

UnwrappedSpace == <<"-", "-", "arg", "=", "unwrapped", " ", "space">>

\* C24 as stated: --arg=unwrapped space escapes to --arg=""unwrapped space""
\* for MSI and to "--arg=unwrapped space" for NSIS; the empty string escapes
\* to eight quotation marks for MSI and to two for NSIS
C24_DocumentedVectorsEightQuotes ==
  /\ (esc_arg = UnwrappedSpace /\ IsSome(esc_msi)) =>
       esc_msi.v = <<"-", "-", "arg", "=">> \o Repeat(QUOTE, 2)
                     \o <<"unwrapped", " ", "space">> \o Repeat(QUOTE, 2)
  /\ (esc_arg = UnwrappedSpace /\ IsSome(esc_nsis)) =>
       esc_nsis.v = <<QUOTE>> \o UnwrappedSpace \o <<QUOTE>>
  /\ (esc_arg = <<>> /\ IsSome(esc_msi)) => esc_msi.v = Repeat(QUOTE, 8)
  /\ (esc_arg = <<>> /\ IsSome(esc_nsis)) => esc_nsis.v = Repeat(QUOTE, 2)

\* C24: the escapers give the documented output for every documented
\* argument: --arg=unwrapped space escapes to --arg=""unwrapped space"" for
\* MSI and to "--arg=unwrapped space" for NSIS; the empty string escapes to
\* four quotation marks for MSI and to two for NSIS
C24_DocumentedVectors ==
  esc_arg \in DocumentedArgs =>
    /\ IsSome(esc_msi) => esc_msi.v = DocumentedMsi(esc_arg)
    /\ IsSome(esc_nsis) => esc_nsis.v = DocumentedNsis(esc_arg)
    /\ DocumentedMsi(<<>>) = Repeat(QUOTE, 4)
    /\ DocumentedNsis(<<>>) = Repeat(QUOTE, 2)
    /\ DocumentedMsi(UnwrappedSpace) =
         <<"-", "-", "arg", "=">> \o Repeat(QUOTE, 2)
           \o <<"unwrapped", " ", "space">> \o Repeat(QUOTE, 2)
    /\ DocumentedNsis(UnwrappedSpace) = <<QUOTE>> \o UnwrappedSpace \o <<QUOTE>>

C24_Witness ==
  /\ esc_arg = <<>>
  /\ esc_msi = SomeVal(Repeat(QUOTE, 4)) /\ esc_nsis = SomeVal(Repeat(QUOTE, 2))

\* the length of the run of quotation marks that starts at position k
QuoteRun(text, k) ==
  Cardinality({ j \in k..Len(text) : \A i \in k..j : text[i] = QUOTE })

\* the positions at which a maximal run of quotation marks starts
QuoteRunStarts(text) ==
  { k \in 1..Len(text) : text[k] = QUOTE /\ (k = 1 \/ text[k - 1] # QUOTE) }

\* C25: in the output of the MSI property escaper every maximal run of
\* quotation marks has even length
C25_MsiQuotesPaired ==
  IsSome(esc_msi) =>
    \A k \in QuoteRunStarts(esc_msi.v) : QuoteRun(esc_msi.v, k) % 2 = 0

C25_Witness ==
  /\ IsSome(esc_msi)
  /\ esc_arg = <<"a", QUOTE, "a">>
  /\ QuoteRunStarts(esc_msi.v) = {1, 4, 9} /\ QuoteRun(esc_msi.v, 4) = 4

\* every space of text from position k on lies in a region opened by a
\* doubled quotation mark and not yet closed by the next one; inside tells
\* whether position k is in such a region
RECURSIVE SpacesWrapped(_, _, _)
SpacesWrapped(text, k, inside) ==
  IF k > Len(text) THEN TRUE
  ELSE IF text[k] = QUOTE /\ k < Len(text) /\ text[k + 1] = QUOTE
    THEN SpacesWrapped(text, k + 2, ~inside)
  ELSE IF text[k] = " " /\ ~inside THEN FALSE
  ELSE SpacesWrapped(text, k + 1, inside)

\* C26: every space in the output of the MSI property escaper lies inside a
\* region wrapped in doubled quotation marks
C26_MsiSpacesWrapped ==
  IsSome(esc_msi) => SpacesWrapped(esc_msi.v, 1, FALSE)

\* the spaces are wrapped whenever the argument is not split at an equals
\* sign, or has no space before its first equals sign
MsiSpacesWrappedUnlessSplit ==
  (IsSome(esc_msi) /\ ~SpacesWrapped(esc_msi.v, 1, FALSE)) =>
    /\ Head(esc_arg) = "-" /\ FirstEquals(esc_arg) > 0
    /\ Contains(SubSeq(esc_arg, 1, FirstEquals(esc_arg) - 1), " ")

(* ------------------- AppImage: the backup directory -------------------- *)

\* install_appimage got past the metadata of the install path
AppImageTried == IsAppImageHost(host) /\ InstallEnded /\ inst.fail # "metadata"

\* the candidates, in order: 1 system temp dir, 2 user cache dir, 3 parent
\* of the install path; a candidate is available unless it is the cache
\* dir and there is none
Available(n) == ~(n = 2 /\ inst.no_cache)

\* the first available candidate on the filesystem of the install path,
\* 0 if there is none
Qualifying == IF inst.same_dev > 0 /\ Available(inst.same_dev) THEN inst.same_dev ELSE 0

\* the number of candidates in which a temp dir was made or attempted
Attempted == Cardinality(PositionsOf("tempdir"))

\* the number of available candidates up to candidate n
AvailableUpTo(n) == Cardinality({ k \in 1..n : Available(k) })

\* when every temp dir can be made: the candidates are tried in order up
\* to the first that qualifies, which holds the backup; without one the
\* install fails with TempDirNotOnSameMountPoint and the target untouched
BackupDirByMountPoint ==
  (AppImageTried /\ inst.fail # "tempdir") =>
    IF Qualifying > 0
      THEN /\ Attempted = AvailableUpTo(Qualifying)
           /\ PositionsOf("set_permissions_tmp") # {}
           /\ iret.v # Err([kind |-> "TempDirNotOnSameMountPoint"])
      ELSE /\ Attempted = AvailableUpTo(TmpDirLocations)
           /\ iret.v = Err([kind |-> "TempDirNotOnSameMountPoint"])
           /\ disk.target = "original"

\* C27: the candidates are tried in the order temp dir, cache dir, parent
\* of the target, and the first on the filesystem of the target holds the
\* backup; a candidate that is unavailable, on another filesystem, or in
\* which no temp dir can be made is passed over for the next; only without
\* a qualifying candidate does install fail, with TempDirNotOnSameMountPoint
\* and the target untouched
C27_BackupDirCandidates ==
  /\ BackupDirByMountPoint
  /\ (AppImageTried /\ inst.fail = "tempdir") =>
       IF Qualifying > 1
         THEN PositionsOf("set_permissions_tmp") # {}
         ELSE /\ iret.v = Err([kind |-> "TempDirNotOnSameMountPoint"])
              /\ disk.target = "original"

(* ------------------- properties of allowDowngrades ------------------- *)

\* the check command returned a session on the release of the remote version
SessionOn(remote) ==
  /\ IsOk(last.ret.v) /\ IsSome(last.ret.v.v)
  /\ IsOk(get(resources, "Update", last.ret.v.v.v))
  /\ get(resources, "Update", last.ret.v.v.v).v.update.version = remote

\* the check command returned Ok(None)
NoSession == last.ret.v = Ok(NoneVal)

\* what the check command answers to a remote version when the comparison
\* says accept
Answers(accept, remote) == IF accept THEN SessionOn(remote) ELSE NoSession

\* C29: with allowDowngrades true the check command returns a session for
\* every remote version that differs from the current one, lower ones
\* included, and None for an equal one, whatever comparator the plugin
\* configured; with allowDowngrades unset or false the plugin's comparator
\* decides, and without one a session is returned only for a remote version
\* strictly greater than the current one
C29_AllowDowngrades ==
  (last.cmd = "check" /\ IsSome(last.ret)) =>
    \E remote \in {last.resps[1].version} :
      IF unwrap_or(last.args.allow_downgrades, FALSE)
        THEN Answers(remote # updater.current_version, remote)
      ELSE IF updater.version_comparator = SomeVal("always")
        THEN Answers(TRUE, remote)
      ELSE IF updater.version_comparator = SomeVal("never")
        THEN Answers(FALSE, remote)
      ELSE Answers(VersionCmp(remote, updater.current_version) = 1, remote)

\* a check with allowDowngrades on a plugin whose comparator accepts nothing
\* returned a session on a version below the current one
C29_Witness ==
  /\ last.cmd = "check" /\ IsSome(last.ret)
  /\ last.args.allow_downgrades = SomeVal(TRUE)
  /\ updater.version_comparator = SomeVal("never")
  /\ VersionCmp(last.resps[1].version, updater.current_version) = -1
  /\ SessionOn(last.resps[1].version)

\* checks without allowDowngrades answered a lower, an equal and a greater
\* remote version under the default comparison
DefaultComparisonSeen ==
  /\ last.cmd = "check" /\ IsSome(last.ret)
  /\ ~unwrap_or(last.args.allow_downgrades, FALSE)
  /\ updater.version_comparator = NoneVal
  /\ VersionCmp(last.resps[1].version, updater.current_version) = 1
  /\ SessionOn(last.resps[1].version)

(* ------------------- properties of install on Windows ------------------- *)

\* install_inner has ended on a Windows host
WindowsInstallEnded == host.os = SomeVal("windows") /\ IsSome(iret)

\* the bytes are a zip archive that holds an .exe or .msi, a raw executable
\* or a raw MSI
InstallerBytes(bytes) ==
  \/ bytes.format = "zip" /\ bytes.entry \in {"exe", "msi"}
  \/ bytes.format = "exe"
  \/ bytes.format = "msi"

\* how often a step was taken
Times(step) == Cardinality({ k \in 1..Len(steps) : steps[k] = step })

\* neither the hook nor an installer was run and the process did not exit
NothingLaunched ==
  Times("on_before_exit") = 0 /\ Times("ShellExecuteW") = 0 /\ Times("exit") = 0

\* the install ended with the hook (if one is set), one launch of the
\* installer and the exit of the process, in this order
LaunchedAndExited ==
  /\ iret = SomeVal(Exited)
  /\ Times("on_before_exit") = (IF inst.hook THEN 1 ELSE 0)
  /\ Times("ShellExecuteW") = 1 /\ Times("exit") = 1
  /\ steps[Len(steps)] = "exit"
  /\ steps[Len(steps) - 1] = "ShellExecuteW"
  /\ inst.hook => steps[Len(steps) - 2] = "on_before_exit"

\* C30: on Windows, bytes that are neither a zip archive holding an .exe or
\* .msi nor a raw executable nor a raw MSI make install return
\* InvalidUpdaterFormat or BinaryNotFoundInArchive with no hook, no installer
\* and no exit; once extraction has succeeded the hook runs, then one
\* installer is launched, then the process exits, in that order
C30_WindowsInstallOrder ==
  WindowsInstallEnded =>
    /\ ~InstallerBytes(inst.bytes) =>
         /\ iret.v \in { Err([kind |-> "InvalidUpdaterFormat"]),
                         Err([kind |-> "BinaryNotFoundInArchive"]) }
         /\ NothingLaunched
    /\ iret.v.tag # "Err" => LaunchedAndExited

\* what holds of it: such bytes make install return an error with nothing
\* launched, and an install that gets past extract and the slice of the
\* process arguments launched and exited
WindowsInstallOrderAnyError ==
  WindowsInstallEnded =>
    /\ ~InstallerBytes(inst.bytes) => iret.v.tag = "Err" /\ NothingLaunched
    /\ iret.v.tag \in {"Err", "Panic"} => NothingLaunched
    /\ iret.v.tag \notin {"Err", "Panic"} => LaunchedAndExited

\* a zip archive that cannot be read made install return the archive error
CorruptArchiveSeen ==
  /\ WindowsInstallEnded /\ inst.fail = "none" /\ inst.zip
  /\ inst.bytes = Payload("zip", "corrupt")
  /\ iret.v = Err([kind |-> "Extract"])

\* an install of a zipped installer with a hook launched and exited
WindowsLaunchSeen ==
  /\ WindowsInstallEnded /\ inst.hook /\ inst.bytes = Payload("zip", "msi")
  /\ LaunchedAndExited

(* --------------- properties of the macOS main-thread handoff --------------- *)

\* the installing task waits on the reply channel and nothing can wake it
BlockedForever == mt.task = "recv" /\ ~ENABLED NextHandoff

\* the dispatch failed, or the script failed to compile or to execute
HandoffFailed ==
  \/ mt.res = SomeVal("err")
  \/ mt.closure = "panicked"
  \/ mt.msg = SomeVal("err")

\* C31: on macOS the wait of the installing task on the reply channel always
\* ends with a result: when the dispatch fails, or the script fails to
\* compile or to execute, install returns the permission-denied error; it
\* neither blocks forever nor panics
C31_HandoffEndsWithResult ==
  /\ ~BlockedForever
  /\ iret # SomeVal(Panicked)
  /\ (mt.task = "done" /\ HandoffFailed) => iret = SomeVal(Err(IoError))

\* what holds of it: a script that was run and failed, and a dispatch that
\* reported failure but ran the closure, end in the permission-denied error
ReplyReceivedEndsWithResult ==
  (mt.task = "done" /\ IsSome(mt.msg)) =>
    iret = SomeVal(IF mt.res.v = "err" \/ mt.msg.v = "err" THEN Err(IoError) ELSE Ok(TRUE))

\* a failed dispatch that dropped the closure made recv fail
DroppedClosureSeen ==
  mt.task = "done" /\ mt.res = SomeVal("err") /\ mt.closure = "dropped" /\ iret = SomeVal(Panicked)

\* a script that did not compile made recv fail
CompileFailureSeen ==
  mt.task = "done" /\ mt.res = SomeVal("ok") /\ mt.closure = "panicked" /\ iret = SomeVal(Panicked)

\* a script that was denied ended the install with the error
DeniedScriptSeen ==
  mt.task = "done" /\ mt.res = SomeVal("ok") /\ mt.msg = SomeVal("err") /\ iret = SomeVal(Err(IoError))

(* ------------------ properties of the progress channel ------------------ *)

\* a download command has returned after its request succeeded
DownloadEnded == last.cmd \in {"download", "download_and_install"} /\ "events" \in DOMAIN last

\* the stream of that download ended without an error
StreamCompleted == DownloadEnded /\ last.calls # <<>>

\* one Progress event per chunk, in the order of the stream
ProgressOf(stream) == [k \in 1..Len(stream) |-> Progress(Len(stream[k]))]

\* Started before the first Progress event, if there is one
StartedOf(stream) == IF stream = <<>> THEN <<>> ELSE <<Started>>

\* C32: in every download command the channel receives Started at most once
\* and immediately before the first Progress event, one Progress event per
\* received chunk in stream order, and Finished exactly once, after the last
\* Progress event, only if the stream completed without error; no event
\* follows Finished
C32_ProgressEvents ==
  /\ dl.active =>
       dl.events = StartedOf(ChunksHanded(dl.calls)) \o ProgressOf(ChunksHanded(dl.calls))
  /\ DownloadEnded =>
       last.events = StartedOf(last.stream) \o ProgressOf(last.stream) \o
                     (IF StreamCompleted THEN <<Finished>> ELSE <<>>)

\* a download of two chunks of different lengths completed
C32_Witness ==
  /\ StreamCompleted
  /\ last.stream = << <<1>>, <<1, 2>> >>
  /\ last.events = <<Started, Progress(1), Progress(2), Finished>>

\* a stream that failed after a chunk sent no Finished
StreamErrorSeen ==
  /\ DownloadEnded /\ ~StreamCompleted
  /\ last.events = <<Started, Progress(2)>>

\* the events on the channel of the running download or, once it has
\* returned, of the download that returned last
ChannelEvents == IF dl.active THEN dl.events ELSE IF DownloadEnded THEN last.events ELSE <<>>

\* C35: whenever a download command emits Finished on the progress channel
\* it has emitted Started earlier in the same download, a successful
\* response whose body has no chunks included
C35_FinishedAfterStarted ==
  \A k \in 1..Len(ChannelEvents) :
    ChannelEvents[k] = Finished => \E j \in 1..(k - 1) : ChannelEvents[j] = Started

\* what holds of it: Finished follows Started when the body had a chunk
FinishedAfterStartedWithChunks ==
  (DownloadEnded /\ last.stream # <<>>) =>
    \A k \in 1..Len(last.events) :
      last.events[k] = Finished => \E j \in 1..(k - 1) : last.events[j] = Started

\* a download whose body had no chunks sent Finished alone
EmptyBodySeen == StreamCompleted /\ last.stream = <<>> /\ last.events = <<Finished>>

(* ---------------- properties of sessions and their bytes ---------------- *)

\* the install command ran Update::install
InstallRan == last.cmd = "install" /\ IsSome(last.installed)

\* C33: the install command runs a session's install only on bytes that were
\* downloaded and verified for that same session: bytes obtained through one
\* session handle are never installed through another
C33_BytesOfSameSession ==
  InstallRan =>
    \E k \in 1..Len(origin) :
      origin[k] = [bytes_rid |-> last.bytes_rid, update_rid |-> last.update_rid]

\* what holds of it: the bytes installed came out of a download command
InstalledBytesWereDownloaded ==
  InstallRan => \E k \in 1..Len(origin) : origin[k].bytes_rid = last.bytes_rid

\* bytes downloaded through handle 1 were installed through handle 2, whose
\* release carries a signature the bytes do not verify against
CrossSessionInstallSeen ==
  /\ InstallRan /\ last.update_rid = 2
  /\ origin = <<[bytes_rid |-> 3, update_rid |-> 1]>> /\ last.bytes_rid = 3
  /\ ~IsOk(verify_signature(last.installed.v.bytes, last.installed.v.update.signature,
                            last.installed.v.update.pubkey))

(* ------------- properties of the Windows installer arguments ------------- *)

\* C34: on Windows the building of the installer argument list never fails
\* with an out-of-range slice: for every session, one whose recorded
\* argument list is empty because the host reported no process arguments
\* included, install proceeds past the removal of the program name
C34_ArgsSliceInRange == WindowsInstallEnded => iret # SomeVal(Panicked)

\* what holds of it: when the host reports the program name, install gets
\* past the slice
ArgsSliceInRangeWithProgramName ==
  (WindowsInstallEnded /\ inst.args_os # <<>>) => iret # SomeVal(Panicked)

\* an install on a host without process arguments panicked after extraction
EmptyArgsSeen ==
  /\ WindowsInstallEnded /\ inst.args_os = <<>> /\ InstallerBytes(inst.bytes)
  /\ iret = SomeVal(Panicked) /\ NothingLaunched

(* ------------- properties of the overrides of a download ------------- *)

\* the command was given neither headers nor a timeout
NoOverrides(args) == args.headers = NoneVal /\ args.timeout = NoneVal

\* C36: the headers and timeout given to a download or download_and_install
\* command apply to that call only: the session in the resource table is
\* left unchanged, and a later download on the same handle without
\* overrides uses the original headers and timeout of the session
C36_OverridesPerCall ==
  /\ get(resources, "Update", 1).v.update \in CheckedSessions
  /\ (dl.active /\ NoOverrides(dl.args)) =>
       /\ dl.update.headers = get(resources, "Update", dl.rid).v.update.headers
       /\ dl.update.timeout = get(resources, "Update", dl.rid).v.update.timeout
       /\ dl.update \in CheckedSessions

\* a download with headers and a timeout has returned, and a download on
\* the same handle without them is running on the session as it was
C36_Witness ==
  /\ DownloadEnded /\ ~NoOverrides(last.args) /\ last.rid = 1
  /\ dl.active /\ dl.rid = 1 /\ NoOverrides(dl.args)
  /\ dl.update \in CheckedSessions
  /\ dl.update.headers = <<>> /\ dl.update.timeout = NoneVal

\* the download with overrides ran on a clone that carried them
OverriddenCloneSeen ==
  /\ dl.active /\ ~NoOverrides(dl.args)
  /\ dl.update.headers = <<"x-token">> /\ dl.update.timeout = SomeVal(5)

====
